---------------------------- MODULE Spec2Model ----------------------------
(***************************************************************************)
(* Molara: scalar-field evaluation and isosurface / isoline extraction.    *)
(*                                                                         *)
(* Numbers.  Grid values and isovalues are C doubles; they are modelled as *)
(* integers counting multiples of a fixed unit of 2.5e-7, so that the      *)
(* threshold 1e-6 of the marching-squares interpolation is EpsUnits = 4    *)
(* units.  A C float is modelled as an even number of units: narrowing a   *)
(* double to a float (ToFloat) rounds to the nearest even number of units, *)
(* ties to the multiple of four.  Quotients are kept as pairs <<num, den>> *)
(* and never reduced; a pair with den = 0 is the inf / nan of C's floating *)
(* division (cdivision(True): no exception is raised).                     *)
(***************************************************************************)
EXTENDS Integers, Sequences, FiniteSets, TLC

VARIABLES
    \* ---- the interpolation helpers applied to drawn arguments
    in_iso, in_v1, in_v2, out_sq, out_mc,
    \* ---- marching_squares(grid, iso_value, ..., voxel_number, lines_1, lines_2)
    sq_grid, sq_n, sq_iso, sq_pc, sq_i, sq_j, corners, sq_index, sq_edges,
    sq_count, lines_1, lines_2, sq_overrun, sq_outcome, sq_visited,
    \* ---- marching_cubes(grid, isovalue, ..., voxel_number, vertices_1, vertices_2)
    mc_grid, mc_n, mc_iso, mc_pc, mc_i, mc_j, mc_k, voxel_values, mc_index,
    mc_edges, mc_count, vertices_1, vertices_2, mc_reads, mc_overrun,
    mc_tris, mc_outcome, mc_visited,
    \* ---- calculate_mo_cartesian(electron_position, ..., cut_off_distances)
    electron_position, orbital_position, orbital_coefficients,
    orbital_exponents, orbital_norms, shells, mo_coefficients, aos_values,
    cut_off_distances, shell_index, shell_start, mo_value, mo_pc, mo_result,
    mo_used, mo_skipped,
    \* ---- calculate_aos(electron_coords, ..., orbital, uao)
    ao_electron_coords, ao_atom_coords, ao_exponents, ao_coefficients,
    ao_norms, ao_orbital, uao, ao_pc,
    \* ---- generate_voxel_grid(origin, voxel_size, voxel_count, aos, mo_coeff,
    \*      cut_off_distances)
    vg_origin, voxel_size, voxel_count, vg_aos, vg_mo_coeff,
    vg_cut_off_distances, voxel_grid, vg_assigned, vg_cell, vg_evaluations,
    vg_pc, vg_outcome,
    \* ---- two concurrent calls of calculate_mo_cartesian on shared arrays
    pm_call, pm_electron, pm_aos, pm_pc, pm_index, pm_start, pm_value,
    pm_result, pm_written,
    \* ---- select_sphere(screen_coordinates, camera_position, ...,
    \*      sphere_origins, radii)
    sphere_origins, radii, camera_position, ray, rc_i, min_distance,
    selected_sphere_index, rc_pc, rc_result,
    \* ---- calculate_model_matrices(translation, scale, rotation, cylinder)
    mx_translation, mx_scale, mx_rotation, cylinder, model_matrices, temp,
    mx_pc, mx_j, temp_writer, mx_seen

interpVars == <<in_iso, in_v1, in_v2, out_sq, out_mc>>
sqVars == <<sq_grid, sq_n, sq_iso, sq_pc, sq_i, sq_j, corners, sq_index,
            sq_edges, sq_count, lines_1, lines_2, sq_overrun, sq_outcome,
            sq_visited>>
mcVars == <<mc_grid, mc_n, mc_iso, mc_pc, mc_i, mc_j, mc_k, voxel_values,
            mc_index, mc_edges, mc_count, vertices_1, vertices_2, mc_reads,
            mc_overrun, mc_tris, mc_outcome, mc_visited>>
moVars == <<electron_position, orbital_position, orbital_coefficients,
            orbital_exponents, orbital_norms, shells, mo_coefficients,
            aos_values, cut_off_distances, shell_index, shell_start, mo_value,
            mo_pc, mo_result, mo_used, mo_skipped>>
aoVars == <<ao_electron_coords, ao_atom_coords, ao_exponents, ao_coefficients,
            ao_norms, ao_orbital, uao, ao_pc>>
vgVars == <<vg_origin, voxel_size, voxel_count, vg_aos, vg_mo_coeff,
            vg_cut_off_distances, voxel_grid, vg_assigned, vg_cell,
            vg_evaluations, vg_pc, vg_outcome>>
pmVars == <<pm_call, pm_electron, pm_aos, pm_pc, pm_index, pm_start,
            pm_value, pm_result, pm_written>>
rcVars == <<sphere_origins, radii, camera_position, ray, rc_i, min_distance,
            selected_sphere_index, rc_pc, rc_result>>
mxVars == <<mx_translation, mx_scale, mx_rotation, cylinder, model_matrices,
            temp, mx_pc, mx_j, temp_writer, mx_seen>>
restVars == <<pmVars, rcVars, mxVars>>
vars == <<interpVars, sqVars, mcVars, moVars, aoVars, vgVars, restVars>>

--------------------------------------------------------------------------
\* Bounds of the model.

\* marching squares: voxel_number[0] is drawn from 1..SqDim
SqDim == 3
\* the drawn arguments of the interpolation helpers lie in -ArgRange..ArgRange
ArgRange == 5
\* output buffers are drawn with 0..MaxRows rows, or with the worst-case size
MaxRows == 3
\* marching cubes: the sphere grids have McDim lattice points along each axis
McDim == 4
\* marching cubes: undersized buffers hold 0..MaxTriangles triangles
MaxTriangles == 2
\* molecular orbitals: calls have 1..MaxShells shells
MaxShells == 2
\* molecular orbitals: exp() underflows to 0 below 2^(-ExpBits)
ExpBits == 12
\* atomic orbitals: electron coordinates are drawn from -1..AoRange
AoRange == 2
\* voxel grid: voxel counts are drawn from -1..VgDim
VgDim == 2
\* picking: a scene holds up to MaxSpheres spheres
MaxSpheres == 3

--------------------------------------------------------------------------
\* Arithmetic helpers.

\* |v2 - v1| < 1e-6 compares against this many units
EpsUnits == 4

Abs(x) == IF x < 0 THEN -x ELSE x

\* double -> float narrowing (round to nearest, ties to even)
ToFloat(x) ==
    IF x % 2 = 0 THEN x
    ELSE IF ((x - 1) \div 2) % 2 = 0 THEN x - 1 ELSE x + 1

\* the value 0.5 as a quotient
Half == <<1, 2>>

\* a quotient that is a finite number
IsFinite(t) == t[2] # 0

\* 0 <= t <= 1 for a quotient t
InUnitInterval(t) ==
    \/ t[2] > 0 /\ 0 <= t[1] /\ t[1] <= t[2]
    \/ t[2] < 0 /\ t[2] <= t[1] /\ t[1] <= 0

\* t = 1/2 as a rational number
IsHalf(t) == t[2] # 0 /\ 2 * t[1] = t[2]

--------------------------------------------------------------------------
\* marchingsquares.pyx

\* Pair of corner indices for each edge of the square
SqEdgeVertexIndices ==
    <<  <<0, 1>>, <<1, 2>>, <<3, 0>>, <<2, 3>>  >>

\* line_table[c + 1] is the row of case c
LineTable == <<
    <<-1, -1, -1, -1>>,
    <<0, 2, -1, -1>>,
    <<0, 1, -1, -1>>,
    <<1, 2, -1, -1>>,
    <<1, 3, -1, -1>>,
    <<0, 1, 2, 3>>,
    <<0, 3, -1, -1>>,
    <<2, 3, -1, -1>>,
    <<2, 3, -1, -1>>,
    <<0, 3, -1, -1>>,
    <<0, 2, 1, 3>>,
    <<1, 3, -1, -1>>,
    <<1, 2, -1, -1>>,
    <<0, 1, -1, -1>>,
    <<0, 2, -1, -1>>,
    <<-1, -1, -1, -1>>  >>

Pow2(n) == IF n = 0 THEN 1 ELSE IF n = 1 THEN 2 ELSE IF n = 2 THEN 4
           ELSE IF n = 3 THEN 8 ELSE IF n = 4 THEN 16 ELSE IF n = 5 THEN 32
           ELSE IF n = 6 THEN 64 ELSE 128

\* bit i of the case index c
Bit(c, i) == (c \div Pow2(i)) % 2

\* the loop "for i in range(n): if pred(values[i]): index |= 1 << i";
\* values is a 1-indexed sequence holding corners 0..n-1
RECURSIVE CaseIndex(_, _, _, _)
CaseIndex(values, thr, above, n) ==
    IF n = 0 THEN 0
    ELSE CaseIndex(values, thr, above, n - 1)
         + (IF (above /\ values[n] > thr) \/ (~above /\ values[n] < thr)
            THEN Pow2(n - 1) ELSE 0)

\* mean < isovalue, with mean = 0.25 * (v0 + v1 + v2 + v3)
SqMeanBelow(values, thr) == values[1] + values[2] + values[3] + values[4] < 4 * thr
SqMeanAbove(values, thr) == values[1] + values[2] + values[3] + values[4] > 4 * thr

\* (mutant) the second "if" is lost: index 10 is never swapped
SqTieBreak_NoSwapOfTen(index, swap) ==
    IF index = 5 /\ swap THEN 10 ELSE index

\* the two consecutive "if index == 5 ... if index == 10 ..." statements
SqTieBreak(index, swap) ==
    LET a == IF index = 5 /\ swap THEN 10 ELSE index
    IN  IF a = 10 /\ swap THEN 5 ELSE a

\* get_edges: the final <<line_table_index_1, line_table_index_2>>
SqGetEdgesIndex(isovalue, values) ==
    << SqTieBreak(CaseIndex(values, isovalue, TRUE, 4),
                  SqMeanBelow(values, isovalue)),
       SqTieBreak(CaseIndex(values, -isovalue, FALSE, 4),
                  SqMeanAbove(values, -isovalue)) >>

\* get_edges: edges_result, the two rows copied out of line_table
SqGetEdges(isovalue, values) ==
    LET ix == SqGetEdgesIndex(isovalue, values)
    IN  << LineTable[ix[1] + 1], LineTable[ix[2] + 1] >>

\* (mutant) the guard only catches equal values
SqInterpolation_EqualOnly(iso, v1, v2) ==
    IF v2 - v1 = 0 THEN Half ELSE <<iso - v1, v2 - v1>>

\* calculate_interpolation_value of marchingsquares.pyx (v1, v2 are floats)
SqInterpolation(iso, v1, v2) ==
    IF Abs(v2 - v1) < EpsUnits THEN Half ELSE <<iso - v1, v2 - v1>>

\* ---- the pass over the cells

\* voxel_indices of corner c (0..3) of cell (i, j)
SqVoxelIndex(i, j, c) ==
    IF c = 0 THEN <<i, j>> ELSE IF c = 1 THEN <<i + 1, j>>
    ELSE IF c = 2 THEN <<i + 1, j + 1>> ELSE <<i, j + 1>>

\* the index of the grid value read into corners[c] (c = 0..3):
\* "corners[0] = grid[i, j]" ... "corners[3] = grid[i, j + 1]"
SqValueIndex(i, j, c) ==
    << <<i, j>>, <<i + 1, j>>, <<i + 1, j + 1>>, <<i, j + 1>> >>[c + 1]

\* corners[0..3] of cell (i, j), as a 1-indexed sequence
SqCorners(grid, i, j) == [c \in 1..4 |-> grid[SqValueIndex(i, j, c - 1)]]

\* row e of edge_vertex_indices; Python wraps a negative index around
SqEdgeRow(e) == SqEdgeVertexIndices[(e % 4) + 1]

\* one end point of a segment: the vertex on edge e of cell (i, j)
SqVertex(e, vals, i, j, iso) ==
    LET c1 == SqEdgeRow(e)[1]
        c2 == SqEdgeRow(e)[2]
    IN  [a |-> SqVoxelIndex(i, j, c1), b |-> SqVoxelIndex(i, j, c2),
         t |-> SqInterpolation(iso, ToFloat(vals[c1 + 1]), ToFloat(vals[c2 + 1]))]

\* (mutant) the loop over ei does not stop at the sentinel
SqSegmentCount_NoSentinelTest(row) == 2

\* "for ei in range(2): if edges[ei * 2] == -1: break": the number of segments
SqSegmentCount(row) ==
    IF row[1] = -1 THEN 0 ELSE IF row[3] = -1 THEN 1 ELSE 2

\* the rows written for one phase of one cell, in the order written
SqCellRows(row, vals, i, j, iso) ==
    [n \in 1..(2 * SqSegmentCount(row)) |-> SqVertex(row[n], vals, i, j, iso)]

\* a buffer row never written
NoData == [a |-> <<-1, -1>>, b |-> <<-1, -1>>, t |-> <<0, 0>>]

\* rows of a buffer: data is the vertex whose components the row holds, cnt
\* is the count stored over the last component (-1: none stored)
EmptyBuffer(rows) == [r \in 1..rows |-> [data |-> NoData, cnt |-> -1]]

\* lines[count + n - 1, :] = verts[n] for n = 1..Len(verts), all within the buffer
SqStore(buf, count, verts) ==
    [r \in 1..Len(buf) |->
        IF r > count /\ r <= count + Len(verts)
        THEN [data |-> verts[r - count], cnt |-> -1]
        ELSE buf[r]]

\* lines[-1, -1] = <float>(vertex_count)
SqStoreCount(buf, count) ==
    [buf EXCEPT ![Len(buf)] = [data |-> buf[Len(buf)].data, cnt |-> count]]

\* the cell after (i, j) in "for i ...: for j ...", or <<-1, -1>> after the last
SqNextCell(n, i, j) ==
    IF j + 1 < n[2] - 1 THEN <<i, j + 1>>
    ELSE IF i + 1 < n[1] - 1 THEN <<i + 1, 0>>
    ELSE <<-1, -1>>

\* the loops visit no cell at all
SqNoCells(n) == n[1] - 1 <= 0 \/ n[2] - 1 <= 0

\* the body of the "for j" loop for cell (sq_i, sq_j): both phases.
\* boundscheck(False): a row index beyond the buffer is written without a
\* check; the build then either faults or corrupts the memory behind the
\* buffer and carries on.
SqCell ==
    /\ sq_pc = "cell"
    /\ LET vals == SqCorners(sq_grid, sq_i, sq_j)
           rows == SqGetEdges(sq_iso, vals)
           w1 == SqCellRows(rows[1], vals, sq_i, sq_j, sq_iso)
           w2 == SqCellRows(rows[2], vals, sq_i, sq_j, -sq_iso)
           fits1 == sq_count[1] + Len(w1) <= Len(lines_1)
           fits2 == sq_count[2] + Len(w2) <= Len(lines_2)
           nxt == SqNextCell(sq_n, sq_i, sq_j)
       IN  /\ corners' = vals
           /\ sq_visited' = Append(sq_visited, <<sq_i, sq_j>>)
           /\ sq_index' = SqGetEdgesIndex(sq_iso, vals)
           /\ sq_edges' = rows
           /\ \E fault \in IF fits1 /\ fits2 THEN {FALSE} ELSE {FALSE, TRUE} :
                IF fault
                THEN /\ lines_1' = SqStore(lines_1, sq_count[1], w1)
                     /\ lines_2' = IF fits1 THEN SqStore(lines_2, sq_count[2], w2)
                                   ELSE lines_2
                     /\ sq_outcome' = "crashed"
                     /\ sq_pc' = "done"
                     /\ UNCHANGED <<sq_count, sq_i, sq_j, sq_overrun>>
                ELSE /\ lines_1' = SqStore(lines_1, sq_count[1], w1)
                     /\ lines_2' = SqStore(lines_2, sq_count[2], w2)
                     /\ sq_count' = <<sq_count[1] + Len(w1), sq_count[2] + Len(w2)>>
                     /\ sq_overrun' = (sq_overrun \/ ~(fits1 /\ fits2))
                     /\ sq_outcome' = sq_outcome
                     /\ IF nxt = <<-1, -1>>
                        THEN sq_pc' = "finish" /\ UNCHANGED <<sq_i, sq_j>>
                        ELSE sq_pc' = "cell" /\ sq_i' = nxt[1] /\ sq_j' = nxt[2]
    /\ UNCHANGED <<sq_grid, sq_n, sq_iso>>
    /\ UNCHANGED <<interpVars, mcVars, moVars, aoVars, vgVars, restVars>>

\* the two statements after the loops; on a buffer without rows the index -1
\* wraps to -1 and the store is outside the buffer
SqFinish ==
    /\ sq_pc = "finish"
    /\ \E fault \in IF Len(lines_1) > 0 /\ Len(lines_2) > 0
                     THEN {FALSE} ELSE {FALSE, TRUE} :
         IF fault
         THEN /\ sq_outcome' = "crashed"
              /\ lines_1' = IF Len(lines_1) > 0
                            THEN SqStoreCount(lines_1, sq_count[1]) ELSE lines_1
              /\ UNCHANGED <<lines_2, sq_overrun>>
         ELSE /\ lines_1' = IF Len(lines_1) > 0
                            THEN SqStoreCount(lines_1, sq_count[1]) ELSE lines_1
              /\ lines_2' = IF Len(lines_2) > 0
                            THEN SqStoreCount(lines_2, sq_count[2]) ELSE lines_2
              /\ sq_overrun' = (sq_overrun \/ Len(lines_1) = 0 \/ Len(lines_2) = 0)
              /\ sq_outcome' = "returned"
    /\ sq_pc' = "done"
    /\ UNCHANGED <<sq_grid, sq_n, sq_iso, sq_i, sq_j, corners, sq_index,
                   sq_edges, sq_count, sq_visited>>
    /\ UNCHANGED <<interpVars, mcVars, moVars, aoVars, vgVars, restVars>>

\* ---- the arguments of a call

\* grid values of the marching-squares calls
SqVals == {-20, 0, 20}
\* isovalues of the marching-squares calls
SqIsos == {4, 12}

\* lattice points of a grid with voxel_number = n
SqPoints(n) == (0..(n[1] - 1)) \X (0..(n[2] - 1))

\* the caller's worst-case number of rows: two segments per cell and the count row
SqWorstRows(n) ==
    IF SqNoCells(n) THEN 1 ELSE 4 * (n[1] - 1) * (n[2] - 1) + 1

\* a call with buffers of any of the drawn sizes (sized = FALSE) or with
\* buffers of the worst-case size only (sized = TRUE)
SqCall(sized) ==
    /\ sq_n \in (1..SqDim) \X (1..2)
    /\ sq_grid \in [SqPoints(sq_n) -> SqVals]
    /\ sq_iso \in SqIsos
    /\ \E rows \in (IF sized THEN {} ELSE 0..MaxRows) \cup {SqWorstRows(sq_n)} :
          /\ lines_1 = EmptyBuffer(rows)
          /\ lines_2 = EmptyBuffer(rows)
    /\ sq_pc = IF SqNoCells(sq_n) THEN "finish" ELSE "cell"
    /\ sq_i = 0
    /\ sq_j = 0
    /\ corners = <<0, 0, 0, 0>>
    /\ sq_index = <<0, 0>>
    /\ sq_edges = <<LineTable[1], LineTable[1]>>
    /\ sq_count = <<0, 0>>
    /\ sq_overrun = FALSE
    /\ sq_outcome = "running"
    /\ sq_visited = <<>>

SqInit == SqCall(FALSE)
SqInitSized == SqCall(TRUE)

SqIdle ==
    /\ sq_n = <<1, 1>>
    /\ sq_grid = [p \in SqPoints(sq_n) |-> 0]
    /\ sq_iso = 4
    /\ lines_1 = EmptyBuffer(1)
    /\ lines_2 = EmptyBuffer(1)
    /\ sq_pc = "done"
    /\ sq_i = 0
    /\ sq_j = 0
    /\ corners = <<0, 0, 0, 0>>
    /\ sq_index = <<0, 0>>
    /\ sq_edges = <<LineTable[1], LineTable[1]>>
    /\ sq_count = <<0, 0>>
    /\ sq_overrun = FALSE
    /\ sq_outcome = "running"
    /\ sq_visited = <<>>

--------------------------------------------------------------------------
\* marchingcubes.pyx

\* Pair of vertex indices for each edge on the cube
McEdgeVertexIndices == <<
    <<1, 0>>, <<1, 2>>, <<2, 3>>, <<0, 3>>,
    <<5, 4>>, <<5, 6>>, <<6, 7>>, <<4, 7>>,
    <<0, 4>>, <<1, 5>>, <<2, 6>>, <<3, 7>>  >>

\* triangle_table[c + 1] is the row of case c
TriangleTable == <<
    <<-1, -1, -1, -1, -1, -1, -1, -1, -1, -1, -1, -1, -1, -1, -1, -1>>,
    <<0, 8, 3, -1, -1, -1, -1, -1, -1, -1, -1, -1, -1, -1, -1, -1>>,
    <<0, 1, 9, -1, -1, -1, -1, -1, -1, -1, -1, -1, -1, -1, -1, -1>>,
    <<1, 8, 3, 9, 8, 1, -1, -1, -1, -1, -1, -1, -1, -1, -1, -1>>,
    <<1, 2, 10, -1, -1, -1, -1, -1, -1, -1, -1, -1, -1, -1, -1, -1>>,
    <<0, 8, 3, 1, 2, 10, -1, -1, -1, -1, -1, -1, -1, -1, -1, -1>>,
    <<9, 2, 10, 0, 2, 9, -1, -1, -1, -1, -1, -1, -1, -1, -1, -1>>,
    <<2, 8, 3, 2, 10, 8, 10, 9, 8, -1, -1, -1, -1, -1, -1, -1>>,
    <<3, 11, 2, -1, -1, -1, -1, -1, -1, -1, -1, -1, -1, -1, -1, -1>>,
    <<0, 11, 2, 8, 11, 0, -1, -1, -1, -1, -1, -1, -1, -1, -1, -1>>,
    <<1, 9, 0, 2, 3, 11, -1, -1, -1, -1, -1, -1, -1, -1, -1, -1>>,
    <<1, 11, 2, 1, 9, 11, 9, 8, 11, -1, -1, -1, -1, -1, -1, -1>>,
    <<3, 10, 1, 11, 10, 3, -1, -1, -1, -1, -1, -1, -1, -1, -1, -1>>,
    <<0, 10, 1, 0, 8, 10, 8, 11, 10, -1, -1, -1, -1, -1, -1, -1>>,
    <<3, 9, 0, 3, 11, 9, 11, 10, 9, -1, -1, -1, -1, -1, -1, -1>>,
    <<9, 8, 10, 10, 8, 11, -1, -1, -1, -1, -1, -1, -1, -1, -1, -1>>,
    <<4, 7, 8, -1, -1, -1, -1, -1, -1, -1, -1, -1, -1, -1, -1, -1>>,
    <<4, 3, 0, 7, 3, 4, -1, -1, -1, -1, -1, -1, -1, -1, -1, -1>>,
    <<0, 1, 9, 8, 4, 7, -1, -1, -1, -1, -1, -1, -1, -1, -1, -1>>,
    <<4, 1, 9, 4, 7, 1, 7, 3, 1, -1, -1, -1, -1, -1, -1, -1>>,
    <<1, 2, 10, 8, 4, 7, -1, -1, -1, -1, -1, -1, -1, -1, -1, -1>>,
    <<3, 4, 7, 3, 0, 4, 1, 2, 10, -1, -1, -1, -1, -1, -1, -1>>,
    <<9, 2, 10, 9, 0, 2, 8, 4, 7, -1, -1, -1, -1, -1, -1, -1>>,
    <<2, 10, 9, 2, 9, 7, 2, 7, 3, 7, 9, 4, -1, -1, -1, -1>>,
    <<8, 4, 7, 3, 11, 2, -1, -1, -1, -1, -1, -1, -1, -1, -1, -1>>,
    <<11, 4, 7, 11, 2, 4, 2, 0, 4, -1, -1, -1, -1, -1, -1, -1>>,
    <<9, 0, 1, 8, 4, 7, 2, 3, 11, -1, -1, -1, -1, -1, -1, -1>>,
    <<4, 7, 11, 9, 4, 11, 9, 11, 2, 9, 2, 1, -1, -1, -1, -1>>,
    <<3, 10, 1, 3, 11, 10, 7, 8, 4, -1, -1, -1, -1, -1, -1, -1>>,
    <<1, 11, 10, 1, 4, 11, 1, 0, 4, 7, 11, 4, -1, -1, -1, -1>>,
    <<4, 7, 8, 9, 0, 11, 9, 11, 10, 11, 0, 3, -1, -1, -1, -1>>,
    <<4, 7, 11, 4, 11, 9, 9, 11, 10, -1, -1, -1, -1, -1, -1, -1>>,
    <<9, 5, 4, -1, -1, -1, -1, -1, -1, -1, -1, -1, -1, -1, -1, -1>>,
    <<9, 5, 4, 0, 8, 3, -1, -1, -1, -1, -1, -1, -1, -1, -1, -1>>,
    <<0, 5, 4, 1, 5, 0, -1, -1, -1, -1, -1, -1, -1, -1, -1, -1>>,
    <<8, 5, 4, 8, 3, 5, 3, 1, 5, -1, -1, -1, -1, -1, -1, -1>>,
    <<1, 2, 10, 9, 5, 4, -1, -1, -1, -1, -1, -1, -1, -1, -1, -1>>,
    <<3, 0, 8, 1, 2, 10, 4, 9, 5, -1, -1, -1, -1, -1, -1, -1>>,
    <<5, 2, 10, 5, 4, 2, 4, 0, 2, -1, -1, -1, -1, -1, -1, -1>>,
    <<2, 10, 5, 3, 2, 5, 3, 5, 4, 3, 4, 8, -1, -1, -1, -1>>,
    <<9, 5, 4, 2, 3, 11, -1, -1, -1, -1, -1, -1, -1, -1, -1, -1>>,
    <<0, 11, 2, 0, 8, 11, 4, 9, 5, -1, -1, -1, -1, -1, -1, -1>>,
    <<0, 5, 4, 0, 1, 5, 2, 3, 11, -1, -1, -1, -1, -1, -1, -1>>,
    <<2, 1, 5, 2, 5, 8, 2, 8, 11, 4, 8, 5, -1, -1, -1, -1>>,
    <<10, 3, 11, 10, 1, 3, 9, 5, 4, -1, -1, -1, -1, -1, -1, -1>>,
    <<4, 9, 5, 0, 8, 1, 8, 10, 1, 8, 11, 10, -1, -1, -1, -1>>,
    <<5, 4, 0, 5, 0, 11, 5, 11, 10, 11, 0, 3, -1, -1, -1, -1>>,
    <<5, 4, 8, 5, 8, 10, 10, 8, 11, -1, -1, -1, -1, -1, -1, -1>>,
    <<9, 7, 8, 5, 7, 9, -1, -1, -1, -1, -1, -1, -1, -1, -1, -1>>,
    <<9, 3, 0, 9, 5, 3, 5, 7, 3, -1, -1, -1, -1, -1, -1, -1>>,
    <<0, 7, 8, 0, 1, 7, 1, 5, 7, -1, -1, -1, -1, -1, -1, -1>>,
    <<1, 5, 3, 3, 5, 7, -1, -1, -1, -1, -1, -1, -1, -1, -1, -1>>,
    <<9, 7, 8, 9, 5, 7, 10, 1, 2, -1, -1, -1, -1, -1, -1, -1>>,
    <<10, 1, 2, 9, 5, 0, 5, 3, 0, 5, 7, 3, -1, -1, -1, -1>>,
    <<8, 0, 2, 8, 2, 5, 8, 5, 7, 10, 5, 2, -1, -1, -1, -1>>,
    <<2, 10, 5, 2, 5, 3, 3, 5, 7, -1, -1, -1, -1, -1, -1, -1>>,
    <<7, 9, 5, 7, 8, 9, 3, 11, 2, -1, -1, -1, -1, -1, -1, -1>>,
    <<9, 5, 7, 9, 7, 2, 9, 2, 0, 2, 7, 11, -1, -1, -1, -1>>,
    <<2, 3, 11, 0, 1, 8, 1, 7, 8, 1, 5, 7, -1, -1, -1, -1>>,
    <<11, 2, 1, 11, 1, 7, 7, 1, 5, -1, -1, -1, -1, -1, -1, -1>>,
    <<9, 5, 8, 8, 5, 7, 10, 1, 3, 10, 3, 11, -1, -1, -1, -1>>,
    <<5, 7, 0, 5, 0, 9, 7, 11, 0, 1, 0, 10, 11, 10, 0, -1>>,
    <<11, 10, 0, 11, 0, 3, 10, 5, 0, 8, 0, 7, 5, 7, 0, -1>>,
    <<11, 10, 5, 7, 11, 5, -1, -1, -1, -1, -1, -1, -1, -1, -1, -1>>,
    <<10, 6, 5, -1, -1, -1, -1, -1, -1, -1, -1, -1, -1, -1, -1, -1>>,
    <<0, 8, 3, 5, 10, 6, -1, -1, -1, -1, -1, -1, -1, -1, -1, -1>>,
    <<9, 0, 1, 5, 10, 6, -1, -1, -1, -1, -1, -1, -1, -1, -1, -1>>,
    <<1, 8, 3, 1, 9, 8, 5, 10, 6, -1, -1, -1, -1, -1, -1, -1>>,
    <<1, 6, 5, 2, 6, 1, -1, -1, -1, -1, -1, -1, -1, -1, -1, -1>>,
    <<1, 6, 5, 1, 2, 6, 3, 0, 8, -1, -1, -1, -1, -1, -1, -1>>,
    <<9, 6, 5, 9, 0, 6, 0, 2, 6, -1, -1, -1, -1, -1, -1, -1>>,
    <<5, 9, 8, 5, 8, 2, 5, 2, 6, 3, 2, 8, -1, -1, -1, -1>>,
    <<2, 3, 11, 10, 6, 5, -1, -1, -1, -1, -1, -1, -1, -1, -1, -1>>,
    <<11, 0, 8, 11, 2, 0, 10, 6, 5, -1, -1, -1, -1, -1, -1, -1>>,
    <<0, 1, 9, 2, 3, 11, 5, 10, 6, -1, -1, -1, -1, -1, -1, -1>>,
    <<5, 10, 6, 1, 9, 2, 9, 11, 2, 9, 8, 11, -1, -1, -1, -1>>,
    <<6, 3, 11, 6, 5, 3, 5, 1, 3, -1, -1, -1, -1, -1, -1, -1>>,
    <<0, 8, 11, 0, 11, 5, 0, 5, 1, 5, 11, 6, -1, -1, -1, -1>>,
    <<3, 11, 6, 0, 3, 6, 0, 6, 5, 0, 5, 9, -1, -1, -1, -1>>,
    <<6, 5, 9, 6, 9, 11, 11, 9, 8, -1, -1, -1, -1, -1, -1, -1>>,
    <<5, 10, 6, 4, 7, 8, -1, -1, -1, -1, -1, -1, -1, -1, -1, -1>>,
    <<4, 3, 0, 4, 7, 3, 6, 5, 10, -1, -1, -1, -1, -1, -1, -1>>,
    <<1, 9, 0, 5, 10, 6, 8, 4, 7, -1, -1, -1, -1, -1, -1, -1>>,
    <<10, 6, 5, 1, 9, 7, 1, 7, 3, 7, 9, 4, -1, -1, -1, -1>>,
    <<6, 1, 2, 6, 5, 1, 4, 7, 8, -1, -1, -1, -1, -1, -1, -1>>,
    <<1, 2, 5, 5, 2, 6, 3, 0, 4, 3, 4, 7, -1, -1, -1, -1>>,
    <<8, 4, 7, 9, 0, 5, 0, 6, 5, 0, 2, 6, -1, -1, -1, -1>>,
    <<7, 3, 9, 7, 9, 4, 3, 2, 9, 5, 9, 6, 2, 6, 9, -1>>,
    <<3, 11, 2, 7, 8, 4, 10, 6, 5, -1, -1, -1, -1, -1, -1, -1>>,
    <<5, 10, 6, 4, 7, 2, 4, 2, 0, 2, 7, 11, -1, -1, -1, -1>>,
    <<0, 1, 9, 4, 7, 8, 2, 3, 11, 5, 10, 6, -1, -1, -1, -1>>,
    <<9, 2, 1, 9, 11, 2, 9, 4, 11, 7, 11, 4, 5, 10, 6, -1>>,
    <<8, 4, 7, 3, 11, 5, 3, 5, 1, 5, 11, 6, -1, -1, -1, -1>>,
    <<5, 1, 11, 5, 11, 6, 1, 0, 11, 7, 11, 4, 0, 4, 11, -1>>,
    <<0, 5, 9, 0, 6, 5, 0, 3, 6, 11, 6, 3, 8, 4, 7, -1>>,
    <<6, 5, 9, 6, 9, 11, 4, 7, 9, 7, 11, 9, -1, -1, -1, -1>>,
    <<10, 4, 9, 6, 4, 10, -1, -1, -1, -1, -1, -1, -1, -1, -1, -1>>,
    <<4, 10, 6, 4, 9, 10, 0, 8, 3, -1, -1, -1, -1, -1, -1, -1>>,
    <<10, 0, 1, 10, 6, 0, 6, 4, 0, -1, -1, -1, -1, -1, -1, -1>>,
    <<8, 3, 1, 8, 1, 6, 8, 6, 4, 6, 1, 10, -1, -1, -1, -1>>,
    <<1, 4, 9, 1, 2, 4, 2, 6, 4, -1, -1, -1, -1, -1, -1, -1>>,
    <<3, 0, 8, 1, 2, 9, 2, 4, 9, 2, 6, 4, -1, -1, -1, -1>>,
    <<0, 2, 4, 4, 2, 6, -1, -1, -1, -1, -1, -1, -1, -1, -1, -1>>,
    <<8, 3, 2, 8, 2, 4, 4, 2, 6, -1, -1, -1, -1, -1, -1, -1>>,
    <<10, 4, 9, 10, 6, 4, 11, 2, 3, -1, -1, -1, -1, -1, -1, -1>>,
    <<0, 8, 2, 2, 8, 11, 4, 9, 10, 4, 10, 6, -1, -1, -1, -1>>,
    <<3, 11, 2, 0, 1, 6, 0, 6, 4, 6, 1, 10, -1, -1, -1, -1>>,
    <<6, 4, 1, 6, 1, 10, 4, 8, 1, 2, 1, 11, 8, 11, 1, -1>>,
    <<9, 6, 4, 9, 3, 6, 9, 1, 3, 11, 6, 3, -1, -1, -1, -1>>,
    <<8, 11, 1, 8, 1, 0, 11, 6, 1, 9, 1, 4, 6, 4, 1, -1>>,
    <<3, 11, 6, 3, 6, 0, 0, 6, 4, -1, -1, -1, -1, -1, -1, -1>>,
    <<6, 4, 8, 11, 6, 8, -1, -1, -1, -1, -1, -1, -1, -1, -1, -1>>,
    <<7, 10, 6, 7, 8, 10, 8, 9, 10, -1, -1, -1, -1, -1, -1, -1>>,
    <<0, 7, 3, 0, 10, 7, 0, 9, 10, 6, 7, 10, -1, -1, -1, -1>>,
    <<10, 6, 7, 1, 10, 7, 1, 7, 8, 1, 8, 0, -1, -1, -1, -1>>,
    <<10, 6, 7, 10, 7, 1, 1, 7, 3, -1, -1, -1, -1, -1, -1, -1>>,
    <<1, 2, 6, 1, 6, 8, 1, 8, 9, 8, 6, 7, -1, -1, -1, -1>>,
    <<2, 6, 9, 2, 9, 1, 6, 7, 9, 0, 9, 3, 7, 3, 9, -1>>,
    <<7, 8, 0, 7, 0, 6, 6, 0, 2, -1, -1, -1, -1, -1, -1, -1>>,
    <<7, 3, 2, 6, 7, 2, -1, -1, -1, -1, -1, -1, -1, -1, -1, -1>>,
    <<2, 3, 11, 10, 6, 8, 10, 8, 9, 8, 6, 7, -1, -1, -1, -1>>,
    <<2, 0, 7, 2, 7, 11, 0, 9, 7, 6, 7, 10, 9, 10, 7, -1>>,
    <<1, 8, 0, 1, 7, 8, 1, 10, 7, 6, 7, 10, 2, 3, 11, -1>>,
    <<11, 2, 1, 11, 1, 7, 10, 6, 1, 6, 7, 1, -1, -1, -1, -1>>,
    <<8, 9, 6, 8, 6, 7, 9, 1, 6, 11, 6, 3, 1, 3, 6, -1>>,
    <<0, 9, 1, 11, 6, 7, -1, -1, -1, -1, -1, -1, -1, -1, -1, -1>>,
    <<7, 8, 0, 7, 0, 6, 3, 11, 0, 11, 6, 0, -1, -1, -1, -1>>,
    <<7, 11, 6, -1, -1, -1, -1, -1, -1, -1, -1, -1, -1, -1, -1, -1>>,
    <<7, 6, 11, -1, -1, -1, -1, -1, -1, -1, -1, -1, -1, -1, -1, -1>>,
    <<3, 0, 8, 11, 7, 6, -1, -1, -1, -1, -1, -1, -1, -1, -1, -1>>,
    <<0, 1, 9, 11, 7, 6, -1, -1, -1, -1, -1, -1, -1, -1, -1, -1>>,
    <<8, 1, 9, 8, 3, 1, 11, 7, 6, -1, -1, -1, -1, -1, -1, -1>>,
    <<10, 1, 2, 6, 11, 7, -1, -1, -1, -1, -1, -1, -1, -1, -1, -1>>,
    <<1, 2, 10, 3, 0, 8, 6, 11, 7, -1, -1, -1, -1, -1, -1, -1>>,
    <<2, 9, 0, 2, 10, 9, 6, 11, 7, -1, -1, -1, -1, -1, -1, -1>>,
    <<6, 11, 7, 2, 10, 3, 10, 8, 3, 10, 9, 8, -1, -1, -1, -1>>,
    <<7, 2, 3, 6, 2, 7, -1, -1, -1, -1, -1, -1, -1, -1, -1, -1>>,
    <<7, 0, 8, 7, 6, 0, 6, 2, 0, -1, -1, -1, -1, -1, -1, -1>>,
    <<2, 7, 6, 2, 3, 7, 0, 1, 9, -1, -1, -1, -1, -1, -1, -1>>,
    <<1, 6, 2, 1, 8, 6, 1, 9, 8, 8, 7, 6, -1, -1, -1, -1>>,
    <<10, 7, 6, 10, 1, 7, 1, 3, 7, -1, -1, -1, -1, -1, -1, -1>>,
    <<10, 7, 6, 1, 7, 10, 1, 8, 7, 1, 0, 8, -1, -1, -1, -1>>,
    <<0, 3, 7, 0, 7, 10, 0, 10, 9, 6, 10, 7, -1, -1, -1, -1>>,
    <<7, 6, 10, 7, 10, 8, 8, 10, 9, -1, -1, -1, -1, -1, -1, -1>>,
    <<6, 8, 4, 11, 8, 6, -1, -1, -1, -1, -1, -1, -1, -1, -1, -1>>,
    <<3, 6, 11, 3, 0, 6, 0, 4, 6, -1, -1, -1, -1, -1, -1, -1>>,
    <<8, 6, 11, 8, 4, 6, 9, 0, 1, -1, -1, -1, -1, -1, -1, -1>>,
    <<9, 4, 6, 9, 6, 3, 9, 3, 1, 11, 3, 6, -1, -1, -1, -1>>,
    <<6, 8, 4, 6, 11, 8, 2, 10, 1, -1, -1, -1, -1, -1, -1, -1>>,
    <<1, 2, 10, 3, 0, 11, 0, 6, 11, 0, 4, 6, -1, -1, -1, -1>>,
    <<4, 11, 8, 4, 6, 11, 0, 2, 9, 2, 10, 9, -1, -1, -1, -1>>,
    <<10, 9, 3, 10, 3, 2, 9, 4, 3, 11, 3, 6, 4, 6, 3, -1>>,
    <<8, 2, 3, 8, 4, 2, 4, 6, 2, -1, -1, -1, -1, -1, -1, -1>>,
    <<0, 4, 2, 4, 6, 2, -1, -1, -1, -1, -1, -1, -1, -1, -1, -1>>,
    <<1, 9, 0, 2, 3, 4, 2, 4, 6, 4, 3, 8, -1, -1, -1, -1>>,
    <<1, 9, 4, 1, 4, 2, 2, 4, 6, -1, -1, -1, -1, -1, -1, -1>>,
    <<8, 1, 3, 8, 6, 1, 8, 4, 6, 6, 10, 1, -1, -1, -1, -1>>,
    <<10, 1, 0, 10, 0, 6, 6, 0, 4, -1, -1, -1, -1, -1, -1, -1>>,
    <<4, 6, 3, 4, 3, 8, 6, 10, 3, 0, 3, 9, 10, 9, 3, -1>>,
    <<10, 9, 4, 6, 10, 4, -1, -1, -1, -1, -1, -1, -1, -1, -1, -1>>,
    <<4, 9, 5, 7, 6, 11, -1, -1, -1, -1, -1, -1, -1, -1, -1, -1>>,
    <<0, 8, 3, 4, 9, 5, 11, 7, 6, -1, -1, -1, -1, -1, -1, -1>>,
    <<5, 0, 1, 5, 4, 0, 7, 6, 11, -1, -1, -1, -1, -1, -1, -1>>,
    <<11, 7, 6, 8, 3, 4, 3, 5, 4, 3, 1, 5, -1, -1, -1, -1>>,
    <<9, 5, 4, 10, 1, 2, 7, 6, 11, -1, -1, -1, -1, -1, -1, -1>>,
    <<6, 11, 7, 1, 2, 10, 0, 8, 3, 4, 9, 5, -1, -1, -1, -1>>,
    <<7, 6, 11, 5, 4, 10, 4, 2, 10, 4, 0, 2, -1, -1, -1, -1>>,
    <<3, 4, 8, 3, 5, 4, 3, 2, 5, 10, 5, 2, 11, 7, 6, -1>>,
    <<7, 2, 3, 7, 6, 2, 5, 4, 9, -1, -1, -1, -1, -1, -1, -1>>,
    <<9, 5, 4, 0, 8, 6, 0, 6, 2, 6, 8, 7, -1, -1, -1, -1>>,
    <<3, 6, 2, 3, 7, 6, 1, 5, 0, 5, 4, 0, -1, -1, -1, -1>>,
    <<6, 2, 8, 6, 8, 7, 2, 1, 8, 4, 8, 5, 1, 5, 8, -1>>,
    <<9, 5, 4, 10, 1, 6, 1, 7, 6, 1, 3, 7, -1, -1, -1, -1>>,
    <<1, 6, 10, 1, 7, 6, 1, 0, 7, 8, 7, 0, 9, 5, 4, -1>>,
    <<4, 0, 10, 4, 10, 5, 0, 3, 10, 6, 10, 7, 3, 7, 10, -1>>,
    <<7, 6, 10, 7, 10, 8, 5, 4, 10, 4, 8, 10, -1, -1, -1, -1>>,
    <<6, 9, 5, 6, 11, 9, 11, 8, 9, -1, -1, -1, -1, -1, -1, -1>>,
    <<3, 6, 11, 0, 6, 3, 0, 5, 6, 0, 9, 5, -1, -1, -1, -1>>,
    <<0, 11, 8, 0, 5, 11, 0, 1, 5, 5, 6, 11, -1, -1, -1, -1>>,
    <<6, 11, 3, 6, 3, 5, 5, 3, 1, -1, -1, -1, -1, -1, -1, -1>>,
    <<1, 2, 10, 9, 5, 11, 9, 11, 8, 11, 5, 6, -1, -1, -1, -1>>,
    <<0, 11, 3, 0, 6, 11, 0, 9, 6, 5, 6, 9, 1, 2, 10, -1>>,
    <<11, 8, 5, 11, 5, 6, 8, 0, 5, 10, 5, 2, 0, 2, 5, -1>>,
    <<6, 11, 3, 6, 3, 5, 2, 10, 3, 10, 5, 3, -1, -1, -1, -1>>,
    <<5, 8, 9, 5, 2, 8, 5, 6, 2, 3, 8, 2, -1, -1, -1, -1>>,
    <<9, 5, 6, 9, 6, 0, 0, 6, 2, -1, -1, -1, -1, -1, -1, -1>>,
    <<1, 5, 8, 1, 8, 0, 5, 6, 8, 3, 8, 2, 6, 2, 8, -1>>,
    <<1, 5, 6, 2, 1, 6, -1, -1, -1, -1, -1, -1, -1, -1, -1, -1>>,
    <<1, 3, 6, 1, 6, 10, 3, 8, 6, 5, 6, 9, 8, 9, 6, -1>>,
    <<10, 1, 0, 10, 0, 6, 9, 5, 0, 5, 6, 0, -1, -1, -1, -1>>,
    <<0, 3, 8, 5, 6, 10, -1, -1, -1, -1, -1, -1, -1, -1, -1, -1>>,
    <<10, 5, 6, -1, -1, -1, -1, -1, -1, -1, -1, -1, -1, -1, -1, -1>>,
    <<11, 5, 10, 7, 5, 11, -1, -1, -1, -1, -1, -1, -1, -1, -1, -1>>,
    <<11, 5, 10, 11, 7, 5, 8, 3, 0, -1, -1, -1, -1, -1, -1, -1>>,
    <<5, 11, 7, 5, 10, 11, 1, 9, 0, -1, -1, -1, -1, -1, -1, -1>>,
    <<10, 7, 5, 10, 11, 7, 9, 8, 1, 8, 3, 1, -1, -1, -1, -1>>,
    <<11, 1, 2, 11, 7, 1, 7, 5, 1, -1, -1, -1, -1, -1, -1, -1>>,
    <<0, 8, 3, 1, 2, 7, 1, 7, 5, 7, 2, 11, -1, -1, -1, -1>>,
    <<9, 7, 5, 9, 2, 7, 9, 0, 2, 2, 11, 7, -1, -1, -1, -1>>,
    <<7, 5, 2, 7, 2, 11, 5, 9, 2, 3, 2, 8, 9, 8, 2, -1>>,
    <<2, 5, 10, 2, 3, 5, 3, 7, 5, -1, -1, -1, -1, -1, -1, -1>>,
    <<8, 2, 0, 8, 5, 2, 8, 7, 5, 10, 2, 5, -1, -1, -1, -1>>,
    <<9, 0, 1, 5, 10, 3, 5, 3, 7, 3, 10, 2, -1, -1, -1, -1>>,
    <<9, 8, 2, 9, 2, 1, 8, 7, 2, 10, 2, 5, 7, 5, 2, -1>>,
    <<1, 3, 5, 3, 7, 5, -1, -1, -1, -1, -1, -1, -1, -1, -1, -1>>,
    <<0, 8, 7, 0, 7, 1, 1, 7, 5, -1, -1, -1, -1, -1, -1, -1>>,
    <<9, 0, 3, 9, 3, 5, 5, 3, 7, -1, -1, -1, -1, -1, -1, -1>>,
    <<9, 8, 7, 5, 9, 7, -1, -1, -1, -1, -1, -1, -1, -1, -1, -1>>,
    <<5, 8, 4, 5, 10, 8, 10, 11, 8, -1, -1, -1, -1, -1, -1, -1>>,
    <<5, 0, 4, 5, 11, 0, 5, 10, 11, 11, 3, 0, -1, -1, -1, -1>>,
    <<0, 1, 9, 8, 4, 10, 8, 10, 11, 10, 4, 5, -1, -1, -1, -1>>,
    <<10, 11, 4, 10, 4, 5, 11, 3, 4, 9, 4, 1, 3, 1, 4, -1>>,
    <<2, 5, 1, 2, 8, 5, 2, 11, 8, 4, 5, 8, -1, -1, -1, -1>>,
    <<0, 4, 11, 0, 11, 3, 4, 5, 11, 2, 11, 1, 5, 1, 11, -1>>,
    <<0, 2, 5, 0, 5, 9, 2, 11, 5, 4, 5, 8, 11, 8, 5, -1>>,
    <<9, 4, 5, 2, 11, 3, -1, -1, -1, -1, -1, -1, -1, -1, -1, -1>>,
    <<2, 5, 10, 3, 5, 2, 3, 4, 5, 3, 8, 4, -1, -1, -1, -1>>,
    <<5, 10, 2, 5, 2, 4, 4, 2, 0, -1, -1, -1, -1, -1, -1, -1>>,
    <<3, 10, 2, 3, 5, 10, 3, 8, 5, 4, 5, 8, 0, 1, 9, -1>>,
    <<5, 10, 2, 5, 2, 4, 1, 9, 2, 9, 4, 2, -1, -1, -1, -1>>,
    <<8, 4, 5, 8, 5, 3, 3, 5, 1, -1, -1, -1, -1, -1, -1, -1>>,
    <<0, 4, 5, 1, 0, 5, -1, -1, -1, -1, -1, -1, -1, -1, -1, -1>>,
    <<8, 4, 5, 8, 5, 3, 9, 0, 5, 0, 3, 5, -1, -1, -1, -1>>,
    <<9, 4, 5, -1, -1, -1, -1, -1, -1, -1, -1, -1, -1, -1, -1, -1>>,
    <<4, 11, 7, 4, 9, 11, 9, 10, 11, -1, -1, -1, -1, -1, -1, -1>>,
    <<0, 8, 3, 4, 9, 7, 9, 11, 7, 9, 10, 11, -1, -1, -1, -1>>,
    <<1, 10, 11, 1, 11, 4, 1, 4, 0, 7, 4, 11, -1, -1, -1, -1>>,
    <<3, 1, 4, 3, 4, 8, 1, 10, 4, 7, 4, 11, 10, 11, 4, -1>>,
    <<4, 11, 7, 9, 11, 4, 9, 2, 11, 9, 1, 2, -1, -1, -1, -1>>,
    <<9, 7, 4, 9, 11, 7, 9, 1, 11, 2, 11, 1, 0, 8, 3, -1>>,
    <<11, 7, 4, 11, 4, 2, 2, 4, 0, -1, -1, -1, -1, -1, -1, -1>>,
    <<11, 7, 4, 11, 4, 2, 8, 3, 4, 3, 2, 4, -1, -1, -1, -1>>,
    <<2, 9, 10, 2, 7, 9, 2, 3, 7, 7, 4, 9, -1, -1, -1, -1>>,
    <<9, 10, 7, 9, 7, 4, 10, 2, 7, 8, 7, 0, 2, 0, 7, -1>>,
    <<3, 7, 10, 3, 10, 2, 7, 4, 10, 1, 10, 0, 4, 0, 10, -1>>,
    <<1, 10, 2, 8, 7, 4, -1, -1, -1, -1, -1, -1, -1, -1, -1, -1>>,
    <<4, 9, 1, 4, 1, 7, 7, 1, 3, -1, -1, -1, -1, -1, -1, -1>>,
    <<4, 9, 1, 4, 1, 7, 0, 8, 1, 8, 7, 1, -1, -1, -1, -1>>,
    <<4, 0, 3, 7, 4, 3, -1, -1, -1, -1, -1, -1, -1, -1, -1, -1>>,
    <<4, 8, 7, -1, -1, -1, -1, -1, -1, -1, -1, -1, -1, -1, -1, -1>>,
    <<9, 10, 8, 10, 11, 8, -1, -1, -1, -1, -1, -1, -1, -1, -1, -1>>,
    <<3, 0, 9, 3, 9, 11, 11, 9, 10, -1, -1, -1, -1, -1, -1, -1>>,
    <<0, 1, 10, 0, 10, 8, 8, 10, 11, -1, -1, -1, -1, -1, -1, -1>>,
    <<3, 1, 10, 11, 3, 10, -1, -1, -1, -1, -1, -1, -1, -1, -1, -1>>,
    <<1, 2, 11, 1, 11, 9, 9, 11, 8, -1, -1, -1, -1, -1, -1, -1>>,
    <<3, 0, 9, 3, 9, 11, 1, 2, 9, 2, 11, 9, -1, -1, -1, -1>>,
    <<0, 2, 11, 8, 0, 11, -1, -1, -1, -1, -1, -1, -1, -1, -1, -1>>,
    <<3, 2, 11, -1, -1, -1, -1, -1, -1, -1, -1, -1, -1, -1, -1, -1>>,
    <<2, 3, 8, 2, 8, 10, 10, 8, 9, -1, -1, -1, -1, -1, -1, -1>>,
    <<9, 10, 2, 0, 9, 2, -1, -1, -1, -1, -1, -1, -1, -1, -1, -1>>,
    <<2, 3, 8, 2, 8, 10, 0, 1, 8, 1, 10, 8, -1, -1, -1, -1>>,
    <<1, 10, 2, -1, -1, -1, -1, -1, -1, -1, -1, -1, -1, -1, -1, -1>>,
    <<1, 3, 8, 9, 1, 8, -1, -1, -1, -1, -1, -1, -1, -1, -1, -1>>,
    <<0, 9, 1, -1, -1, -1, -1, -1, -1, -1, -1, -1, -1, -1, -1, -1>>,
    <<0, 3, 8, -1, -1, -1, -1, -1, -1, -1, -1, -1, -1, -1, -1, -1>>,
    <<-1, -1, -1, -1, -1, -1, -1, -1, -1, -1, -1, -1, -1, -1, -1, -1>>  >>

\* calculate_interpolation_value of marchingcubes.pyx (v1, v2 are floats)
McInterpolation(iso, v1, v2) == <<iso - v1, v2 - v1>>

\* (mutant) the second index is built with the test of the first
McGetEdgesIndex_OneTest(isovalue, values) ==
    << CaseIndex(values, isovalue, TRUE, 8),
       CaseIndex(values, -isovalue, TRUE, 8) >>

\* get_edges: <<triangle_table_index_1, triangle_table_index_2>>
McGetEdgesIndex(isovalue, values) ==
    << CaseIndex(values, isovalue, TRUE, 8),
       CaseIndex(values, -isovalue, FALSE, 8) >>

\* get_edges: edges_result, the two rows copied out of triangle_table
McGetEdges(isovalue, values) ==
    LET ix == McGetEdgesIndex(isovalue, values)
    IN  << TriangleTable[ix[1] + 1], TriangleTable[ix[2] + 1] >>

\* voxel_indices of corner c (0..7) of cell (i, j, k)
McVoxelIndex(i, j, k, c) ==
    << i + (IF c \in {2, 3, 6, 7} THEN 1 ELSE 0),
       j + (IF c \in {4, 5, 6, 7} THEN 1 ELSE 0),
       k + (IF c \in {0, 3, 4, 7} THEN 1 ELSE 0) >>

Max(a, b) == IF a > b THEN a ELSE b
Min(a, b) == IF a < b THEN a ELSE b

\* (mutant) the upper neighbour is not clamped to the last index
McPlus_NoClamp(x, dim) == x + 1

\* calculate_normal_corner: x_plus, y_plus, z_plus
McPlus(x, dim) == Min(x + 1, dim - 1)

\* calculate_normal_corner: x_minus, y_minus, z_minus
McMinus(x) == Max(x - 1, 0)

\* calculate_normal_corner: the six grid indices read for corner p, in the
\* order x_plus, x_minus, y_plus, y_minus, z_plus, z_minus
McNeighbours(shape, p) ==
    << <<McPlus(p[1], shape[1]), p[2], p[3]>>, <<McMinus(p[1]), p[2], p[3]>>,
       <<p[1], McPlus(p[2], shape[2]), p[3]>>, <<p[1], McMinus(p[2]), p[3]>>,
       <<p[1], p[2], McPlus(p[3], shape[3])>>, <<p[1], p[2], McMinus(p[3])>> >>

\* grid values of the single-cell calls; the isovalue is 3
McVals == {-4, 3, 4}

\* a read of grid[p] (boundscheck is off: an index outside the array reads
\* whatever lies there, junk)
McRead(grid, p, junk) == IF p \in DOMAIN grid THEN grid[p] ELSE junk

\* the vector np.zeros(3)
McZero == <<0, 0, 0>>

\* calculate_normal_corner: the differences <<dx, dy, dz>>.  They are small
\* against the grid values, so the float each is narrowed to holds it
\* exactly.  The normal is this vector divided by its length
\* norm_of_result, which is 0 exactly when the three differences are 0.
McNormalCorner(grid, shape, p, junk) ==
    LET q == McNeighbours(shape, p)
    IN  << McRead(grid, q[1], junk) - McRead(grid, q[2], junk),
           McRead(grid, q[3], junk) - McRead(grid, q[4], junk),
           McRead(grid, q[5], junk) - McRead(grid, q[6], junk) >>

\* calculate_normal_vertex: n = n1 + t1 * (n2 - n1) is the zero vector.  n1
\* and n2 are unit vectors, so this needs n2 = -n1 and t1 = 1/2; the floats
\* n1 and n2 are exactly opposite when the two gradients are.
McInterpolatesToZero(ga, gb, t) ==
    /\ IsHalf(t)
    /\ \A a \in 1..3 : gb[a] = -ga[a]

\* calculate_normal_vertex divides by zero: by norm_of_result at one of the
\* two corners, or by norm_of_n.  The two helpers are compiled without
\* cdivision, so the division raises ZeroDivisionError.
McNormalVertexFails(v) ==
    \/ v.ga = McZero
    \/ v.gb = McZero
    \/ McInterpolatesToZero(v.ga, v.gb, v.nt)

\* row e of edge_vertex_indices; Python wraps a negative index around
McEdgeRow(e) == McEdgeVertexIndices[(e % 12) + 1]

\* (mutant) the normal is multiplied by prefactor
McNormalSign_NotNegated(prefactor) == prefactor

\* "n = -prefactor * n": the factor of the renormalised normal
McNormalSign(prefactor) == -prefactor

\* the vertex on edge e of cell (i, j, k): the lattice points a and b of its
\* two corners and the interpolation factor t its position is computed
\* from; the corners na, nb and the factor nt handed to
\* calculate_normal_vertex, the corner gradients ga and gb it normalises
\* and interpolates by nt, and the sign the renormalised result is
\* multiplied by
McVertex(e, vals, grid, shape, i, j, k, iso, prefactor, junk) ==
    LET c1 == McEdgeRow(e)[1]
        c2 == McEdgeRow(e)[2]
        a == McVoxelIndex(i, j, k, c1)
        b == McVoxelIndex(i, j, k, c2)
        t1 == McInterpolation(iso * prefactor, ToFloat(vals[c1 + 1]),
                              ToFloat(vals[c2 + 1]))
    IN  [a |-> a, b |-> b, t |-> t1,
         na |-> a, nb |-> b, nt |-> t1,
         ga |-> McNormalCorner(grid, shape, a, junk),
         gb |-> McNormalCorner(grid, shape, b, junk),
         sign |-> McNormalSign(prefactor)]

\* (mutant) the loop over ei does not stop at the sentinel
McTriangleCount_NoSentinelTest(row) == 5

\* "for ei in range(5): if edges[ei * 3] == -1: break": the number of triangles
McTriangleCount(row) ==
    IF row[1] = -1 THEN 0 ELSE IF row[4] = -1 THEN 1 ELSE IF row[7] = -1 THEN 2
    ELSE IF row[10] = -1 THEN 3 ELSE IF row[13] = -1 THEN 4 ELSE 5

\* the triangles emitted for one phase of one cell, in the order emitted
McCellTriangles(row, vals, grid, shape, i, j, k, iso, prefactor, junk) ==
    [n \in 1..McTriangleCount(row) |->
        [m \in 1..3 |-> McVertex(row[3 * (n - 1) + m], vals, grid, shape,
                                  i, j, k, iso, prefactor, junk)]]

\* the triangles of tris before the first whose normals divide by zero: the
\* error raised in the helper reaches marching_cubes before the six stores
\* of that triangle
McUntilZeroDivision(tris) ==
    LET bad == { n \in 1..Len(tris) :
                   \E m \in 1..3 : McNormalVertexFails(tris[n][m]) }
    IN  IF bad = {} THEN tris
        ELSE SubSeq(tris, 1, (CHOOSE n \in bad : \A m \in bad : n <= m) - 1)

\* the grid indices calculate_normal_corner reads while the triangles of
\* row are computed: the six neighbours of both corners of every edge
McTriangleReads(row, shape, i, j, k) ==
    LET pts == { McVoxelIndex(i, j, k, McEdgeRow(row[n])[m])
                 : n \in 1..(3 * McTriangleCount(row)), m \in 1..2 }
    IN  UNION { { McNeighbours(shape, p)[q] : q \in 1..6 } : p \in pts }

\* the grid indices read while cell (i, j, k) is processed
McCellReads(rows, shape, i, j, k) ==
    { McVoxelIndex(i, j, k, c) : c \in 0..7 }
    \cup McTriangleReads(rows[1], shape, i, j, k)
    \cup McTriangleReads(rows[2], shape, i, j, k)

\* (mutant) the first two reads have their third index exchanged
McValueIndex_FirstTwoExchanged(i, j, k, c) ==
    << <<i, j, k>>, <<i, j, k + 1>>, <<i + 1, j, k>>, <<i + 1, j, k + 1>>,
       <<i, j + 1, k + 1>>, <<i, j + 1, k>>, <<i + 1, j + 1, k>>,
       <<i + 1, j + 1, k + 1>> >>[c + 1]

\* the index of the grid value read into voxel_values[c] (c = 0..7):
\* "voxel_values[0] = grid[i, j, k + 1]" ...
\* "voxel_values[7] = grid[i + 1, j + 1, k + 1]"
McValueIndex(i, j, k, c) ==
    << <<i, j, k + 1>>, <<i, j, k>>, <<i + 1, j, k>>, <<i + 1, j, k + 1>>,
       <<i, j + 1, k + 1>>, <<i, j + 1, k>>, <<i + 1, j + 1, k>>,
       <<i + 1, j + 1, k + 1>> >>[c + 1]

\* voxel_values[0..7] of cell (i, j, k), as a 1-indexed sequence
McVoxelValues(grid, i, j, k) == [c \in 1..8 |-> grid[McValueIndex(i, j, k, c - 1)]]

\* a buffer of len floats: writes lists, in the order made, the triangles
\* stored (18 floats from index at on) and cnt is the count stored in the
\* last float (-1: none stored)
McEmptyBuffer(len) == [len |-> len, writes |-> <<>>, cnt |-> -1]

\* the six slice stores of each triangle of tris, the first at index count
McStore(buf, count, tris) ==
    [buf EXCEPT !.writes =
        buf.writes \o [n \in 1..Len(tris) |-> [at |-> count + 18 * (n - 1),
                                                 tri |-> tris[n]]]]

\* the triangles of tris up to the first that does not fit into the buffer
McUntilMisfit(buf, count, tris) ==
    LET fit == Min(Len(tris), Max(0, (buf.len - count) \div 18))
    IN  SubSeq(tris, 1, Min(Len(tris), fit + 1))

\* vertices[-1] = <float>vertices_count
McStoreCount(buf, count) == [buf EXCEPT !.cnt = count]

\* (mutant) the innermost loop stops one cell early
McNextCell_SkipsLastLayer(n, i, j, k) ==
    IF k + 1 < n[3] - 2 THEN <<i, j, k + 1>>
    ELSE IF j + 1 < n[2] - 1 THEN <<i, j + 1, 0>>
    ELSE IF i + 1 < n[1] - 1 THEN <<i + 1, 0, 0>>
    ELSE <<-1, -1, -1>>

\* the cell after (i, j, k) in the three nested loops, or <<-1, -1, -1>>
McNextCell(n, i, j, k) ==
    IF k + 1 < n[3] - 1 THEN <<i, j, k + 1>>
    ELSE IF j + 1 < n[2] - 1 THEN <<i, j + 1, 0>>
    ELSE IF i + 1 < n[1] - 1 THEN <<i + 1, 0, 0>>
    ELSE <<-1, -1, -1>>

\* the loops visit no cell at all
McNoCells(n) == n[1] - 1 <= 0 \/ n[2] - 1 <= 0 \/ n[3] - 1 <= 0

\* the body of the "for k" loop for cell (mc_i, mc_j, mc_k): both phases.
\* A slice store that does not fit into the buffer either ends the pass
\* (the error cannot leave the function, which returns) or lands in the
\* memory behind the buffer.  A ZeroDivisionError of the normal helpers
\* ends the pass in the same way, before the triangle it belongs to is
\* stored: marching_cubes is declared exceptval(check=False), reports the
\* error and returns without storing the counts.
McCell ==
    /\ mc_pc = "cell"
    /\ voxel_values' = McVoxelValues(mc_grid, mc_i, mc_j, mc_k)
    /\ mc_index' = McGetEdgesIndex(mc_iso, voxel_values')
    /\ mc_edges' = McGetEdges(mc_iso, voxel_values')
    /\ mc_visited' = Append(mc_visited, <<mc_i, mc_j, mc_k>>)
    /\ mc_reads' = McCellReads(mc_edges', mc_n, mc_i, mc_j, mc_k)
    /\ \E junk \in IF mc_reads' \subseteq DOMAIN mc_grid THEN {0} ELSE McVals :
         LET p1 == McCellTriangles(mc_edges'[1], voxel_values', mc_grid, mc_n,
                                   mc_i, mc_j, mc_k, mc_iso, 1, junk)
             e1 == McUntilZeroDivision(p1)
         IN  mc_tris' = << e1,
                           IF Len(e1) < Len(p1) THEN <<>>
                           ELSE McUntilZeroDivision(
                                    McCellTriangles(mc_edges'[2], voxel_values',
                                        mc_grid, mc_n, mc_i, mc_j, mc_k,
                                        mc_iso, -1, junk)) >>
    /\ LET w1 == mc_tris'[1]
           w2 == mc_tris'[2]
           fits1 == mc_count[1] + 18 * Len(w1) <= vertices_1.len
           fits2 == mc_count[2] + 18 * Len(w2) <= vertices_2.len
           zero_division == \/ Len(w1) < McTriangleCount(mc_edges'[1])
                            \/ Len(w2) < McTriangleCount(mc_edges'[2])
           nxt == McNextCell(mc_n, mc_i, mc_j, mc_k)
       IN  \E fault \in IF fits1 /\ fits2 THEN {FALSE} ELSE {FALSE, TRUE} :
             IF fault
             THEN /\ vertices_1' = McStore(vertices_1, mc_count[1],
                            McUntilMisfit(vertices_1, mc_count[1], w1))
                  /\ vertices_2' =
                        IF fits1
                        THEN McStore(vertices_2, mc_count[2],
                                 McUntilMisfit(vertices_2, mc_count[2], w2))
                        ELSE vertices_2
                  /\ mc_outcome' = "aborted"
                  /\ mc_pc' = "done"
                  /\ UNCHANGED <<mc_count, mc_i, mc_j, mc_k, mc_overrun>>
             ELSE /\ vertices_1' = McStore(vertices_1, mc_count[1], w1)
                  /\ vertices_2' = McStore(vertices_2, mc_count[2], w2)
                  /\ mc_count' = <<mc_count[1] + 18 * Len(w1),
                                   mc_count[2] + 18 * Len(w2)>>
                  /\ mc_overrun' = (mc_overrun \/ ~(fits1 /\ fits2))
                  /\ IF zero_division
                     THEN /\ mc_outcome' = "ZeroDivisionError"
                          /\ mc_pc' = "done"
                          /\ UNCHANGED <<mc_i, mc_j, mc_k>>
                     ELSE /\ mc_outcome' = mc_outcome
                          /\ IF nxt = <<-1, -1, -1>>
                             THEN mc_pc' = "finish" /\ UNCHANGED <<mc_i, mc_j, mc_k>>
                             ELSE /\ mc_pc' = "cell"
                                  /\ mc_i' = nxt[1]
                                  /\ mc_j' = nxt[2]
                                  /\ mc_k' = nxt[3]
    /\ UNCHANGED <<mc_grid, mc_n, mc_iso>>
    /\ UNCHANGED <<interpVars, sqVars, moVars, aoVars, vgVars, restVars>>

\* the statements after the loops: the two counts are stored and 0 is
\* returned; on a buffer of no floats the index -1 stays -1
McFinish ==
    /\ mc_pc = "finish"
    /\ \E fault \in IF vertices_1.len > 0 /\ vertices_2.len > 0
                     THEN {FALSE} ELSE {FALSE, TRUE} :
         IF fault
         THEN /\ mc_outcome' = "aborted"
              /\ vertices_1' = IF vertices_1.len > 0
                               THEN McStoreCount(vertices_1, mc_count[1])
                               ELSE vertices_1
              /\ UNCHANGED <<vertices_2, mc_overrun>>
         ELSE /\ vertices_1' = IF vertices_1.len > 0
                               THEN McStoreCount(vertices_1, mc_count[1])
                               ELSE vertices_1
              /\ vertices_2' = IF vertices_2.len > 0
                               THEN McStoreCount(vertices_2, mc_count[2])
                               ELSE vertices_2
              /\ mc_overrun' = (mc_overrun \/ vertices_1.len = 0 \/ vertices_2.len = 0)
              /\ mc_outcome' = "returned"
    /\ mc_pc' = "done"
    /\ UNCHANGED <<mc_grid, mc_n, mc_iso, mc_i, mc_j, mc_k, voxel_values,
                   mc_index, mc_edges, mc_count, mc_reads, mc_tris, mc_visited>>
    /\ UNCHANGED <<interpVars, sqVars, moVars, aoVars, vgVars, restVars>>

\* ---- the arguments of a call

\* lattice points of a grid of shape n
McPoints(n) == (0..(n[1] - 1)) \X (0..(n[2] - 1)) \X (0..(n[3] - 1))

\* the caller's worst-case number of floats: five triangles per cell and the count
McWorstLen(n) ==
    IF McNoCells(n) THEN 1
    ELSE 5 * 18 * (n[1] - 1) * (n[2] - 1) * (n[3] - 1) + 1

\* the value 1.0 in units (1e-6 is EpsUnits units)
One == 1000000 * EpsUnits

\* the grid that is 1 at the lattice points inside the sphere with centre
\* c2 / 2 and squared radius r2x4 / 4, and -1 elsewhere
SphereGrid(n, c2, r2x4) ==
    [p \in McPoints(n) |->
        IF (2 * p[1] - c2[1]) * (2 * p[1] - c2[1])
           + (2 * p[2] - c2[2]) * (2 * p[2] - c2[2])
           + (2 * p[3] - c2[3]) * (2 * p[3] - c2[3]) < r2x4
        THEN One ELSE -One]

\* the sphere lies strictly inside the grid of shape <<dim, dim, dim>>
SphereInside(dim, c2, r2x4) ==
    \A a \in 1..3 :
        /\ c2[a] > 0
        /\ c2[a] < 2 * (dim - 1)
        /\ c2[a] * c2[a] > r2x4
        /\ (2 * (dim - 1) - c2[a]) * (2 * (dim - 1) - c2[a]) > r2x4

\* calls on sphere grids at isovalue 0.5, with buffers of the worst-case size
McSphereCall ==
    /\ mc_n = <<McDim, McDim, McDim>>
    /\ \E c2 \in ((McDim - 2)..McDim) \X ((McDim - 2)..McDim) \X ((McDim - 2)..McDim),
          r2x4 \in 1..((McDim - 1) * (McDim - 1)) :
            /\ SphereInside(McDim, c2, r2x4)
            /\ mc_grid = SphereGrid(mc_n, c2, r2x4)
    /\ mc_iso = One \div 2
    /\ vertices_1 = McEmptyBuffer(McWorstLen(mc_n))
    /\ vertices_2 = McEmptyBuffer(McWorstLen(mc_n))

\* calls on a single cell whose values lie next to the isovalue, with
\* buffers of the worst-case size
McCellCall ==
    /\ mc_n = <<2, 2, 2>>
    /\ mc_grid \in [McPoints(mc_n) -> McVals]
    /\ mc_iso = 3
    /\ vertices_1 = McEmptyBuffer(McWorstLen(mc_n))
    /\ vertices_2 = McEmptyBuffer(McWorstLen(mc_n))

\* calls on a single cell with buffers of 0..MaxTriangles triangles and no
\* room for the count
McSmallBufferCall ==
    /\ mc_n = <<2, 2, 2>>
    /\ mc_grid \in [McPoints(mc_n) -> {-4, 4}]
    /\ mc_iso = 3
    /\ \E m \in 0..MaxTriangles :
          /\ vertices_1 = McEmptyBuffer(18 * m)
          /\ vertices_2 = McEmptyBuffer(18 * m)

\* grid values of the ridge calls; the isovalue is 4
McRidgeVals == {-8, 0, 8}

\* calls on a grid of two cells in a row whose values do not change along
\* the third axis (ridges, troughs and slopes along the first), with
\* buffers of the worst-case size
McRidgeCall ==
    /\ mc_n = <<3, 2, 2>>
    /\ \E f \in [(0..2) \X (0..1) -> McRidgeVals] :
          mc_grid = [p \in McPoints(mc_n) |-> f[<<p[1], p[2]>>]]
    /\ mc_iso = 4
    /\ vertices_1 = McEmptyBuffer(McWorstLen(mc_n))
    /\ vertices_2 = McEmptyBuffer(McWorstLen(mc_n))

\* grid values of the calls at isovalue 0: none is 0, and the float that 1
\* is narrowed to is 0
McZeroIsoVals == {-4, 1, 4}

\* calls on a single cell at isovalue 0 with no grid value equal to 0
McZeroIsoCall ==
    /\ mc_n = <<2, 2, 2>>
    /\ mc_grid \in [McPoints(mc_n) -> McZeroIsoVals]
    /\ mc_iso = 0
    /\ vertices_1 = McEmptyBuffer(McWorstLen(mc_n))
    /\ vertices_2 = McEmptyBuffer(McWorstLen(mc_n))

McStart ==
    /\ mc_pc = IF McNoCells(mc_n) THEN "finish" ELSE "cell"
    /\ mc_i = 0
    /\ mc_j = 0
    /\ mc_k = 0
    /\ voxel_values = <<0, 0, 0, 0, 0, 0, 0, 0>>
    /\ mc_index = <<0, 0>>
    /\ mc_edges = <<TriangleTable[1], TriangleTable[1]>>
    /\ mc_count = <<0, 0>>
    /\ mc_reads = {}
    /\ mc_overrun = FALSE
    /\ mc_outcome = "running"
    /\ mc_visited = <<>>
    /\ mc_tris = <<<<>>, <<>>>>

McInit == (McSphereCall \/ McCellCall) /\ McStart
McInitSphere == McSphereCall /\ McStart
McInitSmallBuffer == McSmallBufferCall /\ McStart
McInitRidge == McRidgeCall /\ McStart
McInitZeroIso == McZeroIsoCall /\ McStart

McIdle ==
    /\ mc_n = <<1, 1, 1>>
    /\ mc_grid = [p \in McPoints(mc_n) |-> 0]
    /\ mc_iso = 3
    /\ vertices_1 = McEmptyBuffer(1)
    /\ vertices_2 = McEmptyBuffer(1)
    /\ mc_pc = "done"
    /\ mc_i = 0
    /\ mc_j = 0
    /\ mc_k = 0
    /\ voxel_values = <<0, 0, 0, 0, 0, 0, 0, 0>>
    /\ mc_index = <<0, 0>>
    /\ mc_edges = <<TriangleTable[1], TriangleTable[1]>>
    /\ mc_count = <<0, 0>>
    /\ mc_reads = {}
    /\ mc_overrun = FALSE
    /\ mc_outcome = "running"
    /\ mc_visited = <<>>
    /\ mc_tris = <<<<>>, <<>>>>

--------------------------------------------------------------------------
\* mos.pyx (calculate_mo_cartesian) and aos.pyx (calculate_aos)
\*
\* Positions are integers.  An exponent is a whole multiple a of ln 2, so
\* exp(-exponent * r2) = 2^(-a * r2); the radial sum is kept multiplied by
\* 2^ExpBits and a term smaller than 2^(-ExpBits) underflows to 0.  The
\* factors sqr3, sqr5, sqr7 are kept apart from the integer part: a number
\* is [m |-> integer, e |-> <<e3, e5, e7>>] and stands for
\* m * sqr3^e3 * sqr5^e5 * sqr7^e7.  The scales that occur are linearly
\* independent over the integers, so a sum of such numbers is the function
\* that gives each scale its integer coefficient.

\* number_of_basis_functions
NumberOfBasisFunctions == <<1, 3, 6, 10, 15>>

RECURSIVE TwoTo(_)
TwoTo(n) == IF n <= 0 THEN 1 ELSE 2 * TwoTo(n - 1)

\* 2^ExpBits * exp(-a * ln 2 * r2)
ExpNeg(a, r2) == IF a * r2 > ExpBits THEN 0 ELSE TwoTo(ExpBits - a * r2)

\* "for ic in prange(ngto): u += norms[ic] * coefficients[ic] * exp(...)"
RECURSIVE RadialSum(_, _, _, _, _)
RadialSum(exponents, coefficients, norms, r2, ngto) ==
    IF ngto = 0 THEN 0
    ELSE RadialSum(exponents, coefficients, norms, r2, ngto - 1)
         + norms[ngto] * coefficients[ngto] * ExpNeg(exponents[ngto], r2)

\* squared distance between two points
DistanceSq(p, c) ==
    (p[1] - c[1]) * (p[1] - c[1]) + (p[2] - c[2]) * (p[2] - c[2])
    + (p[3] - c[3]) * (p[3] - c[3])

\* the scales 1, sqr3, sqr5, sqr5 * sqr3, sqr7, sqr7 * sqr5 / sqr3 and
\* sqr7 * sqr5 reached by the chained "u = sqr * u" statements
Plain == <<0, 0, 0>>
Sqr3 == <<1, 0, 0>>
Sqr5 == <<0, 1, 0>>
Sqr5Sqr3 == <<1, 1, 0>>
Sqr7 == <<0, 0, 1>>
Sqr7Sqr5OverSqr3 == <<-1, 1, 1>>
Sqr7Sqr5 == <<0, 1, 1>>
Scales == {Plain, Sqr3, Sqr5, Sqr5Sqr3, Sqr7, Sqr7Sqr5OverSqr3, Sqr7Sqr5}

Num(m, e) == [m |-> m, e |-> e]
Zero == Num(0, Plain)

\* the product of two scales
ScaleTimes(e, f) == <<e[1] + f[1], e[2] + f[2], e[3] + f[3]>>
\* the factor "sqr5 / sqr3"
Sqr5OverSqr3 == <<-1, 1, 0>>

\* the array built by the statements "uao[index] = value" listed in writes
\* as pairs <<index, value>> that cover the indices 0..n-1
Written(writes, n) ==
    [i \in 1..n |->
        LET last == CHOOSE w \in 1..Len(writes) :
                        /\ writes[w][1] = i - 1
                        /\ \A x \in (w + 1)..Len(writes) : writes[x][1] # i - 1
        IN  writes[last][2]]

\* (mutant) the f indices number the components in the order of the
\* statements that write them
FIndex_StatementOrder ==
    [fxxx |-> 0, fyyy |-> 1, fzzz |-> 2, fxxy |-> 3, fxxz |-> 4, fxyy |-> 5,
     fyyz |-> 6, fxzz |-> 7, fyzz |-> 8, fxyz |-> 9]

\* "cdef int fxxx = 0" ... "cdef int fxyz = 9"
FIndex ==
    [fxxx |-> 0, fyyy |-> 1, fzzz |-> 2, fxyy |-> 3, fxxy |-> 4, fxxz |-> 5,
     fxzz |-> 6, fyzz |-> 7, fyyz |-> 8, fxyz |-> 9]

\* (mutant) the indices of xxxy and yyyx exchanged
GIndex_CubicsExchanged ==
    [gxxxx |-> 0, gyyyy |-> 1, gzzzz |-> 2, gxxxy |-> 5, gxxxz |-> 4,
     gyyyx |-> 3, gyyyz |-> 6, gzzzx |-> 7, gzzzy |-> 8, gxxyy |-> 9,
     gxxzz |-> 10, gyyzz |-> 11, gxxyz |-> 12, gyyxz |-> 13, gzzxy |-> 14]

\* "cdef int gxxxx = 0" ... "cdef int gzzxy = 14"
GIndex ==
    [gxxxx |-> 0, gyyyy |-> 1, gzzzz |-> 2, gxxxy |-> 3, gxxxz |-> 4,
     gyyyx |-> 5, gyyyz |-> 6, gzzzx |-> 7, gzzzy |-> 8, gxxyy |-> 9,
     gxxzz |-> 10, gyyzz |-> 11, gxxyz |-> 12, gyyxz |-> 13, gzzxy |-> 14]

\* the branch "elif orbital == f"
AosF(dx, dy, dz, u) ==
    LET dx2 == dx * dx
        dy2 == dy * dy
        dz2 == dz * dz
        dxyz == dx * dy * dz
        u5 == ScaleTimes(Plain, Sqr5)   \* u = sqr5 * u
        u53 == ScaleTimes(u5, Sqr3)     \* u = sqr3 * u
    IN  Written(<< <<FIndex.fxxx, Num(dx2 * dx * u, Plain)>>,
                   <<FIndex.fyyy, Num(dy2 * dy * u, Plain)>>,
                   <<FIndex.fzzz, Num(dz2 * dz * u, Plain)>>,
                   <<FIndex.fxxy, Num(dx2 * dy * u, u5)>>,
                   <<FIndex.fxxz, Num(dx2 * dz * u, u5)>>,
                   <<FIndex.fxyy, Num(dy2 * dx * u, u5)>>,
                   <<FIndex.fyyz, Num(dy2 * dz * u, u5)>>,
                   <<FIndex.fxzz, Num(dz2 * dx * u, u5)>>,
                   <<FIndex.fyzz, Num(dz2 * dy * u, u5)>>,
                   <<FIndex.fxyz, Num(dxyz * u, u53)>> >>, 10)

\* (mutant) every multiplication starts again from the radial sum
AosGScales_NotChained == <<Plain, Sqr7, Sqr5OverSqr3, Sqr5>>

\* the scale of u in the four groups of the g branch: "u = sqr7 * u",
\* "u = sqr5 / sqr3 * u", "u = sqr3 * u", each applied to the u before it
AosGScales ==
    LET u7 == ScaleTimes(Plain, Sqr7)
        u753 == ScaleTimes(u7, Sqr5OverSqr3)
    IN  <<Plain, u7, u753, ScaleTimes(u753, Sqr3)>>

\* the branch "elif orbital == g"
AosG(dx, dy, dz, u) ==
    LET dx2 == dx * dx
        dy2 == dy * dy
        dz2 == dz * dz
        dxyz == dx * dy * dz
        sc == AosGScales
    IN  Written(<< <<GIndex.gxxxx, Num(dx2 * dx2 * u, sc[1])>>,
                   <<GIndex.gyyyy, Num(dy2 * dy2 * u, sc[1])>>,
                   <<GIndex.gzzzz, Num(dz2 * dz2 * u, sc[1])>>,
                   <<GIndex.gxxxy, Num(dx2 * dx * dy * u, sc[2])>>,
                   <<GIndex.gxxxz, Num(dx2 * dx * dz * u, sc[2])>>,
                   <<GIndex.gyyyx, Num(dy2 * dy * dx * u, sc[2])>>,
                   <<GIndex.gyyyz, Num(dy2 * dy * dz * u, sc[2])>>,
                   <<GIndex.gzzzx, Num(dz2 * dz * dx * u, sc[2])>>,
                   <<GIndex.gzzzy, Num(dz2 * dz * dy * u, sc[2])>>,
                   <<GIndex.gxxyy, Num(dx2 * dy2 * u, sc[3])>>,
                   <<GIndex.gxxzz, Num(dx2 * dz2 * u, sc[3])>>,
                   <<GIndex.gyyzz, Num(dy2 * dz2 * u, sc[3])>>,
                   <<GIndex.gxxyz, Num(dx * dxyz * u, sc[4])>>,
                   <<GIndex.gyyxz, Num(dy * dxyz * u, sc[4])>>,
                   <<GIndex.gzzxy, Num(dz * dxyz * u, sc[4])>> >>, 15)

\* calculate_aos: the components written to uao[0], uao[1], ... for the
\* angular momentum orbital (no component for any other value of it)
CalculateAos(electron_coords, atom_coords, exponents, coefficients, norms, orbital) ==
    LET dx == electron_coords[1] - atom_coords[1]
        dy == electron_coords[2] - atom_coords[2]
        dz == electron_coords[3] - atom_coords[3]
        dx2 == dx * dx
        dy2 == dy * dy
        dz2 == dz * dz
        u == RadialSum(exponents, coefficients, norms,
                       dx * dx + dy * dy + dz * dz, Len(exponents))
    IN  IF orbital = 0 THEN << Num(u, Plain) >>
        ELSE IF orbital = 1
        THEN << Num(dx * u, Plain), Num(dy * u, Plain), Num(dz * u, Plain) >>
        ELSE IF orbital = 2
        THEN << Num(dx2 * u, Plain), Num(dy2 * u, Plain), Num(dz2 * u, Plain),
                Num(dx * dy * u, Sqr3), Num(dx * dz * u, Sqr3),
                Num(dy * dz * u, Sqr3) >>
        ELSE IF orbital = 3 THEN AosF(dx, dy, dz, u)
        ELSE IF orbital = 4 THEN AosG(dx, dy, dz, u)
        ELSE << >>

\* "for i in range(shell_start, shell_end): mo_value += mo_coefficients[i]
\* * aos_values[i]"
RECURSIVE MoAccumulate(_, _, _, _, _)
MoAccumulate(value, coeffs, aos, first, last) ==
    IF last < first THEN value
    ELSE LET v == MoAccumulate(value, coeffs, aos, first, last - 1)
             x == aos[last]
         IN  [v EXCEPT ![x.e] = @ + coeffs[last] * x.m]

\* "if distance_sq < cut_off_distances[shell_index] ** 2"
MoWithinCutoff(distance_sq, cutoff) == distance_sq < cutoff * cutoff

\* (mutant) shell_start only advances past a shell that was evaluated
MoNextShellStart_OnlyWhenEvaluated(evaluated, start, shell_end) ==
    IF evaluated THEN shell_end ELSE start

\* "shell_start = shell_end", the last statement of the loop body
MoNextShellStart(evaluated, start, shell_end) == shell_end

\* the statements before the loop: "shell_start = 0", "aos_values[:] = 0.0"
MoEnter ==
    /\ mo_pc = "entry"
    /\ mo_pc' = "loop"
    /\ shell_index' = 0
    /\ shell_start' = 0
    /\ mo_value' = [e \in Scales |-> 0]
    /\ aos_values' = [r \in 1..Len(aos_values) |-> Zero]
    /\ UNCHANGED <<mo_result, mo_used, mo_skipped, electron_position,
                   orbital_position, orbital_exponents, orbital_coefficients,
                   orbital_norms, shells, mo_coefficients, cut_off_distances>>
    /\ UNCHANGED <<interpVars, sqVars, mcVars, aoVars, vgVars, restVars>>

\* one iteration of "for shell_index in range(number_of_shells)"; arrays
\* are 1-indexed, so row shell_start of the code is row shell_start + 1
MoShell ==
    /\ mo_pc = "loop"
    /\ shell_index < Len(shells)
    /\ LET shell == shells[shell_index + 1]
           row == shell_start + 1
           distance_sq == DistanceSq(electron_position, orbital_position[row])
           shell_end == shell_start + NumberOfBasisFunctions[shell + 1]
           evaluated == MoWithinCutoff(distance_sq, cut_off_distances[shell_index + 1])
       IN  /\ IF evaluated
              THEN /\ aos_values' =
                        LET out == CalculateAos(electron_position,
                                       orbital_position[row], orbital_exponents[row],
                                       orbital_coefficients[row], orbital_norms[row],
                                       shell)
                        IN  [i \in 1..Len(aos_values) |->
                                IF i > shell_start /\ i <= shell_end
                                THEN out[i - shell_start] ELSE aos_values[i]]
                   /\ mo_value' = MoAccumulate(mo_value, mo_coefficients, aos_values',
                                               shell_start + 1, shell_end)
                   /\ mo_used' = mo_used \o [i \in 1..(shell_end - shell_start) |->
                                                shell_start + i - 1]
                   /\ UNCHANGED mo_skipped
              ELSE /\ mo_skipped' = mo_skipped \cup {shell_index}
                   /\ UNCHANGED <<aos_values, mo_value, mo_used>>
           /\ shell_start' = MoNextShellStart(evaluated, shell_start, shell_end)
    /\ shell_index' = shell_index + 1
    /\ UNCHANGED <<mo_pc, mo_result, electron_position, orbital_position,
                   orbital_exponents, orbital_coefficients, orbital_norms,
                   shells, mo_coefficients, cut_off_distances>>
    /\ UNCHANGED <<interpVars, sqVars, mcVars, aoVars, vgVars, restVars>>

\* "return mo_value"
MoReturn ==
    /\ mo_pc = "loop"
    /\ shell_index = Len(shells)
    /\ mo_pc' = "done"
    /\ mo_result' = mo_value
    /\ UNCHANGED <<shell_index, shell_start, aos_values, mo_value, mo_used,
                   mo_skipped, electron_position, orbital_position,
                   orbital_exponents, orbital_coefficients, orbital_norms,
                   shells, mo_coefficients, cut_off_distances>>
    /\ UNCHANGED <<interpVars, sqVars, mcVars, aoVars, vgVars, restVars>>

\* ---- the arguments of a call

\* the number of basis functions of the shells before shell n (1-indexed)
RECURSIVE BasisFunctionsBefore(_, _)
BasisFunctionsBefore(shs, n) ==
    IF n <= 1 THEN 0
    ELSE BasisFunctionsBefore(shs, n - 1) + NumberOfBasisFunctions[shs[n - 1] + 1]

\* the shell (1-indexed) that row r (1-indexed) of the orbital arrays belongs to
ShellOfRow(shs, r) ==
    CHOOSE n \in 1..Len(shs) :
        /\ BasisFunctionsBefore(shs, n) < r
        /\ r <= BasisFunctionsBefore(shs, n + 1)

\* sequences over S of length 1..n
SeqsUpTo(S, n) == UNION { [1..len -> S] : len \in 1..n }

\* centre and cutoff radius of a shell of the calls
MoPlacements == { << <<0, 0, 0>>, 1 >>, << <<1, 0, 0>>, 1 >>, << <<1, 0, 0>>, 2 >> }
\* electron positions of the calls
MoElectrons == { <<0, 0, 0>>, <<1, 1, 0>>, <<2, 1, 1>> }
\* primitives of a shell, padded to two with a zero-weight entry:
\* <<exponents, coefficients, norms>>
MoPrimitives == { << <<1, 0>>, <<2, 0>>, <<3, 0>> >>,
                  << <<1, 2>>, <<1, 2>>, <<1, 3>> >> }

\* what the scratch array aos_values holds from the previous call
MoStale == { Num(7, Plain) }

\* the arrays generate_voxel_grid builds: one row per basis function, every
\* row of a shell holding the data of the shell
MoInit ==
    /\ shells \in SeqsUpTo(0..4, MaxShells)
    /\ electron_position \in MoElectrons
    /\ \E placed \in [1..Len(shells) -> MoPlacements], prims \in MoPrimitives,
          stale \in MoStale :
          LET rows == BasisFunctionsBefore(shells, Len(shells) + 1)
          IN  /\ cut_off_distances = [n \in 1..Len(shells) |-> placed[n][2]]
              /\ orbital_position = [r \in 1..rows |-> placed[ShellOfRow(shells, r)][1]]
              /\ orbital_exponents = [r \in 1..rows |-> prims[1]]
              /\ orbital_coefficients = [r \in 1..rows |-> prims[2]]
              /\ orbital_norms = [r \in 1..rows |-> prims[3]]
              /\ mo_coefficients = [r \in 1..rows |-> (r % 3) + 1]
              /\ aos_values = [r \in 1..rows |-> stale]
    /\ shell_index = 0
    /\ shell_start = 0
    /\ mo_value = [e \in Scales |-> 0]
    /\ mo_result = [e \in Scales |-> 0]
    /\ mo_pc = "entry"
    /\ mo_used = <<>>
    /\ mo_skipped = {}

MoIdle ==
    /\ shells = <<>>
    /\ electron_position = <<0, 0, 0>>
    /\ cut_off_distances = <<>>
    /\ orbital_position = <<>>
    /\ orbital_exponents = <<>>
    /\ orbital_coefficients = <<>>
    /\ orbital_norms = <<>>
    /\ mo_coefficients = <<>>
    /\ aos_values = <<>>
    /\ shell_index = 0
    /\ shell_start = 0
    /\ mo_value = [e \in Scales |-> 0]
    /\ mo_result = [e \in Scales |-> 0]
    /\ mo_pc = "done"
    /\ mo_used = <<>>
    /\ mo_skipped = {}

--------------------------------------------------------------------------
\* generate_voxel_grid.pyx
\*
\* Lengths handed to generate_voxel_grid are whole numbers of a unit of
\* length in Angstrom; lengths handed to calculate_mo_cartesian are whole
\* numbers of a unit in bohr chosen so that ANGSTROM_TO_BOHR is
\* AngstromToBohr of them per unit in Angstrom.

\* "cdef double ANGSTROM_TO_BOHR_ = ANGSTROM_TO_BOHR"
AngstromToBohr == 2

\* calculate_mo_cartesian as one evaluation: the loop over the shells from
\* shell number index on, for the arguments in the record call
RECURSIVE MoLoop(_, _, _, _, _)
MoLoop(call, index, start, aos, value) ==
    IF index = Len(call.shells) THEN value
    ELSE LET shell == call.shells[index + 1]
             row == start + 1
             distance_sq == DistanceSq(call.electron_position,
                                       call.orbital_position[row])
             shell_end == start + NumberOfBasisFunctions[shell + 1]
             evaluated == MoWithinCutoff(distance_sq,
                                         call.cut_off_distances[index + 1])
             out == CalculateAos(call.electron_position,
                                 call.orbital_position[row],
                                 call.orbital_exponents[row],
                                 call.orbital_coefficients[row],
                                 call.orbital_norms[row], shell)
             written == [i \in 1..Len(aos) |->
                            IF i > start /\ i <= shell_end
                            THEN out[i - start] ELSE aos[i]]
         IN  IF evaluated
             THEN MoLoop(call, index + 1,
                         MoNextShellStart(evaluated, start, shell_end), written,
                         MoAccumulate(value, call.mo_coefficients, written,
                                      start + 1, shell_end))
             ELSE MoLoop(call, index + 1,
                         MoNextShellStart(evaluated, start, shell_end), aos, value)

CalculateMoCartesian(call) ==
    MoLoop(call, 0, 0, [r \in 1..Len(call.mo_coefficients) |-> Zero],
           [e \in Scales |-> 0])

\* ---- the preparation of the arrays from the list aos

\* "max_length": the longest list of exponents
RECURSIVE VgMaxLength(_, _)
VgMaxLength(aos, n) ==
    IF n = 0 THEN 0 ELSE Max(Len(aos[n].exponents), VgMaxLength(aos, n - 1))

\* (mutant) the rows are not zeroed before they are filled
VgPadded_NotZeroed(list, max_length) ==
    [i \in 1..max_length |-> IF i <= Len(list) THEN list[i] ELSE 1]

\* a row of max_length entries zeroed and then filled from list
VgPadded(list, max_length) ==
    [i \in 1..max_length |-> IF i <= Len(list) THEN list[i] ELSE 0]

\* "orbital_positions[ao_index, i] = ao.position[i] * ANGSTROM_TO_BOHR"
VgToBohr(position) ==
    <<position[1] * AngstromToBohr, position[2] * AngstromToBohr,
      position[3] * AngstromToBohr>>

\* (mutant) the counter of a g shell is set one too low
VgSkipCount_GShellShort(l) == <<0, 2, 5, 9, 13>>[l + 1]

\* the value skip_shells is set to at the first entry of a shell of angular
\* momentum l (it stays 0 for l = 0)
VgSkipCount(l) == <<0, 2, 5, 9, 14>>[l + 1]

\* the loop that collects shells_temp with the counter skip_shells, from
\* entry ao_index of aos on
RECURSIVE VgShells(_, _, _, _)
VgShells(aos, ao_index, skip_shells, shells_temp) ==
    IF ao_index > Len(aos) THEN shells_temp
    ELSE IF skip_shells = 0
    THEN LET l == aos[ao_index].ijk[1] + aos[ao_index].ijk[2] + aos[ao_index].ijk[3]
         IN  IF l \in 0..4
             THEN VgShells(aos, ao_index + 1, VgSkipCount(l),
                           shells_temp \o <<l>>)
             \* no branch assigns the entry: it keeps what the array held
             ELSE VgShells(aos, ao_index + 1, 0, shells_temp \o <<-1>>)
    ELSE VgShells(aos, ao_index + 1, skip_shells - 1, shells_temp)

\* the counter skip_shells when the same loop, run from entry ao_index of
\* aos on, has ended
RECURSIVE VgSkipShells(_, _, _)
VgSkipShells(aos, ao_index, skip_shells) ==
    IF ao_index > Len(aos) THEN skip_shells
    ELSE IF skip_shells = 0
    THEN LET l == aos[ao_index].ijk[1] + aos[ao_index].ijk[2] + aos[ao_index].ijk[3]
         IN  VgSkipShells(aos, ao_index + 1,
                          IF l \in 0..4 THEN VgSkipCount(l) ELSE 0)
    ELSE VgSkipShells(aos, ao_index + 1, skip_shells - 1)

\* "number_of_shells": it is incremented together with shell_index, once
\* for every entry of shells_temp
VgNumberOfShells(aos) == Len(VgShells(aos, 1, 0, <<>>))

\* the arguments voxel_grid_loops hands to calculate_mo_cartesian
VgCall(aos, mo_coeff, cutoffs, position) ==
    LET max_length == VgMaxLength(aos, Len(aos))
    IN  [electron_position |-> position,
         orbital_position |-> [r \in 1..Len(aos) |-> VgToBohr(aos[r].position)],
         orbital_exponents |->
             [r \in 1..Len(aos) |-> VgPadded(aos[r].exponents, max_length)],
         orbital_coefficients |->
             [r \in 1..Len(aos) |-> VgPadded(aos[r].coefficients, max_length)],
         orbital_norms |->
             [r \in 1..Len(aos) |-> VgPadded(aos[r].norms, max_length)],
         shells |-> VgShells(aos, 1, 0, <<>>),
         mo_coefficients |-> mo_coeff,
         cut_off_distances |-> cutoffs]

\* (mutant) the origin is added after the conversion
VgElectronPosition_OriginNotConverted(origin, size, i, j, k) ==
    [a \in 1..3 |->
        (size[1][a] * i + size[2][a] * j + size[3][a] * k)
        * AngstromToBohr + origin[a]]

\* electron_position of cell (i, j, k)
VgElectronPosition(origin, size, i, j, k) ==
    [a \in 1..3 |->
        ((size[1][a] * i + size[2][a] * j + size[3][a] * k)
         + origin[a]) * AngstromToBohr]

\* the cell after (i, j, k) in the three loops, <<-1, -1, -1>> after the last
VgNextCell(count, i, j, k) ==
    IF k + 1 < count[3] THEN <<i, j, k + 1>>
    ELSE IF j + 1 < count[2] THEN <<i, j + 1, 0>>
    ELSE IF i + 1 < count[1] THEN <<i + 1, 0, 0>>
    ELSE <<-1, -1, -1>>

\* the cells of an array of this shape
VgCells(count) ==
    (0..(count[1] - 1)) \X (0..(count[2] - 1)) \X (0..(count[3] - 1))

\* what a cell of the freshly allocated array holds: no value
Unassigned == << >>

\* generate_voxel_grid up to the call of voxel_grid_loops: the allocation
\* of voxel_grid (numpy refuses a negative dimension) and the preparation
VgPrepare ==
    /\ vg_pc = "call"
    /\ IF \E a \in 1..3 : voxel_count[a] < 0
       THEN /\ vg_pc' = "done"
            /\ vg_outcome' = "ValueError"
            /\ UNCHANGED <<voxel_grid, vg_assigned, vg_cell>>
       ELSE /\ voxel_grid' = [c \in VgCells(voxel_count) |-> Unassigned]
            /\ vg_assigned' = [c \in VgCells(voxel_count) |-> 0]
            /\ IF VgCells(voxel_count) = {}
               THEN vg_pc' = "return" /\ UNCHANGED vg_cell
               ELSE vg_pc' = "loop" /\ vg_cell' = <<0, 0, 0>>
            /\ UNCHANGED vg_outcome
    /\ UNCHANGED <<vg_origin, voxel_size, voxel_count, vg_aos, vg_mo_coeff,
                   vg_cut_off_distances, vg_evaluations>>
    /\ UNCHANGED <<interpVars, sqVars, mcVars, moVars, aoVars, restVars>>

\* the body of the innermost loop of voxel_grid_loops for cell vg_cell
VgCell ==
    /\ vg_pc = "loop"
    /\ LET i == vg_cell[1]
           j == vg_cell[2]
           k == vg_cell[3]
           position == VgElectronPosition(vg_origin, voxel_size, i, j, k)
           next == VgNextCell(voxel_count, i, j, k)
       IN  /\ voxel_grid' = [voxel_grid EXCEPT ![vg_cell] =
                   CalculateMoCartesian(VgCall(vg_aos, vg_mo_coeff,
                                               vg_cut_off_distances, position))]
           /\ vg_assigned' = [vg_assigned EXCEPT ![vg_cell] = @ + 1]
           /\ vg_evaluations' = vg_evaluations + 1
           /\ IF next = <<-1, -1, -1>>
              THEN vg_pc' = "return" /\ UNCHANGED vg_cell
              ELSE vg_pc' = "loop" /\ vg_cell' = next
    /\ UNCHANGED <<vg_origin, voxel_size, voxel_count, vg_aos, vg_mo_coeff,
                   vg_cut_off_distances, vg_outcome>>
    /\ UNCHANGED <<interpVars, sqVars, mcVars, moVars, aoVars, restVars>>

\* "return voxel_grid"
VgReturn ==
    /\ vg_pc = "return"
    /\ vg_pc' = "done"
    /\ vg_outcome' = "returned"
    /\ UNCHANGED <<vg_origin, voxel_size, voxel_count, vg_aos, vg_mo_coeff,
                   vg_cut_off_distances, voxel_grid, vg_assigned, vg_cell,
                   vg_evaluations>>
    /\ UNCHANGED <<interpVars, sqVars, mcVars, moVars, aoVars, restVars>>

\* ---- the arguments of a call

\* the entries of aos for one shell of angular momentum l: one per basis
\* function, all with the data of the shell and ijk adding up to l
VgShellAos(l, position, prims) ==
    [c \in 1..NumberOfBasisFunctions[l + 1] |->
        [position |-> position,
         ijk |-> IF c = 1 THEN <<l, 0, 0>> ELSE <<0, l - 1, 1>>,
         exponents |-> prims[1], coefficients |-> prims[2], norms |-> prims[3]]]

\* the orbitals of the calls, with the cutoff radius of each shell
VgMolecules ==
    { [aos |-> <<>>, cutoffs |-> <<>>],
      [aos |-> VgShellAos(0, <<0, 0, 0>>, << <<1>>, <<2>>, <<3>> >>),
       cutoffs |-> <<3>>],
      [aos |-> VgShellAos(1, <<0, 0, 0>>, << <<1>>, <<2>>, <<3>> >>)
               \o VgShellAos(2, <<1, 0, 0>>, << <<1, 2>>, <<1, 2>>, <<1, 3>> >>),
       cutoffs |-> <<3, 2>>] }

\* the three rows of voxel_size of the calls: an orthogonal and a sheared basis
VgBases ==
    { << <<1, 0, 0>>, <<0, 1, 0>>, <<0, 0, 1>> >>,
      << <<1, 0, 0>>, <<1, 1, 0>>, <<0, 1, 1>> >> }

VgInit ==
    /\ voxel_count \in ((-1)..VgDim) \X ((-1)..VgDim) \X ((-1)..VgDim)
    /\ voxel_size \in VgBases
    /\ vg_origin \in { <<0, 0, 0>>, <<-1, 0, 1>> }
    /\ \E molecule \in VgMolecules :
          /\ vg_aos = molecule.aos
          /\ vg_cut_off_distances = molecule.cutoffs
          /\ vg_mo_coeff = [r \in 1..Len(molecule.aos) |-> (r % 3) + 1]
    /\ voxel_grid = <<>>
    /\ vg_assigned = <<>>
    /\ vg_cell = <<0, 0, 0>>
    /\ vg_evaluations = 0
    /\ vg_pc = "call"
    /\ vg_outcome = "running"

\* ---- calls with an s shell at the first place of aos

\* the primitives of the s shell: <<exponents, coefficients, norms>>
VgSPrimitives == { << <<1>>, <<2>>, <<3>> >>, << <<1, 2>>, <<1, 2>>, <<1, 3>> >> }

\* the orbitals after the s shell: none, or an s shell of two or of three
\* primitives that is out of reach of every cell
VgFarShells ==
    { <<>>,
      VgShellAos(0, <<4, 4, 4>>, << <<1, 1>>, <<1, 1>>, <<1, 1>> >>),
      VgShellAos(0, <<4, 4, 4>>, << <<1, 1, 2>>, <<1, 1, 1>>, <<1, 2, 1>> >>) }

VgInitSShell ==
    /\ voxel_count \in { <<2, 1, 1>>, <<1, 2, 1>>, <<2, 2, 1>> }
    /\ voxel_size \in VgBases
    /\ vg_origin \in { <<0, 0, 0>>, <<-1, 0, 1>> }
    /\ \E prims \in VgSPrimitives, far \in VgFarShells, centre \in 0..1,
          first \in {-1, 1, 2}, cutoff \in 2..3 :
          /\ vg_aos = VgShellAos(0, <<centre, 0, 0>>, prims) \o far
          /\ vg_cut_off_distances = <<cutoff>> \o [r \in 1..Len(far) |-> 1]
          /\ vg_mo_coeff = <<first>> \o [r \in 1..Len(far) |-> 1]
    /\ voxel_grid = <<>>
    /\ vg_assigned = <<>>
    /\ vg_cell = <<0, 0, 0>>
    /\ vg_evaluations = 0
    /\ vg_pc = "call"
    /\ vg_outcome = "running"

\* ---- calls on lists of complete shells

\* the angular momenta of the shells of a call, in order
VgShellLists == UNION { [1..n -> 0..4] : n \in 0..MaxShells }

\* the list aos of the first n shells of ls: shell m sits at <<m - 1, 0, 0>>
RECURSIVE VgAosOfShells(_, _)
VgAosOfShells(ls, n) ==
    IF n = 0 THEN <<>>
    ELSE VgAosOfShells(ls, n - 1)
         \o VgShellAos(ls[n], <<n - 1, 0, 0>>, << <<1>>, <<2>>, <<3>> >>)

VgInitShells ==
    /\ voxel_count \in { <<1, 1, 1>>, <<2, 1, 1>> }
    /\ voxel_size \in VgBases
    /\ vg_origin = <<0, 0, 0>>
    /\ \E ls \in VgShellLists :
          /\ vg_aos = VgAosOfShells(ls, Len(ls))
          /\ vg_cut_off_distances = [r \in 1..Len(ls) |-> 3]
          /\ vg_mo_coeff = [r \in 1..Len(vg_aos) |-> (r % 3) + 1]
    /\ voxel_grid = <<>>
    /\ vg_assigned = <<>>
    /\ vg_cell = <<0, 0, 0>>
    /\ vg_evaluations = 0
    /\ vg_pc = "call"
    /\ vg_outcome = "running"

VgIdle ==
    /\ voxel_count = <<0, 0, 0>>
    /\ voxel_size = << <<1, 0, 0>>, <<0, 1, 0>>, <<0, 0, 1>> >>
    /\ vg_origin = <<0, 0, 0>>
    /\ vg_aos = <<>>
    /\ vg_cut_off_distances = <<>>
    /\ vg_mo_coeff = <<>>
    /\ voxel_grid = <<>>
    /\ vg_assigned = <<>>
    /\ vg_cell = <<0, 0, 0>>
    /\ vg_evaluations = 0
    /\ vg_pc = "done"
    /\ vg_outcome = "idle"

--------------------------------------------------------------------------
\* calculate_aos called on its own

\* the call: uao[0..n-1] are written for a shell of n components, the
\* radial sum being computed first; returns 0
ApplyCalculateAos ==
    /\ ao_pc = "call"
    /\ uao' = LET w == CalculateAos(ao_electron_coords, ao_atom_coords,
                                    ao_exponents, ao_coefficients, ao_norms,
                                    ao_orbital)
              IN  [i \in 1..Len(uao) |-> IF i <= Len(w) THEN w[i] ELSE uao[i]]
    /\ ao_pc' = "done"
    /\ UNCHANGED <<ao_electron_coords, ao_atom_coords, ao_exponents,
                   ao_coefficients, ao_norms, ao_orbital>>
    /\ UNCHANGED <<interpVars, sqVars, mcVars, moVars, vgVars, restVars>>

\* the arguments: uao is the slice of aos_values of the shell, holding
\* whatever it held before
AoInit ==
    /\ ao_electron_coords \in ((-1)..AoRange) \X ((-1)..AoRange) \X ((-1)..AoRange)
    /\ ao_atom_coords \in { <<0, 0, 0>>, <<1, 0, -1>> }
    /\ ao_orbital \in 0..4
    /\ \E prims \in MoPrimitives :
          /\ ao_exponents = prims[1]
          /\ ao_coefficients = prims[2]
          /\ ao_norms = prims[3]
    /\ uao = [i \in 1..NumberOfBasisFunctions[ao_orbital + 1] |-> Num(7, Plain)]
    /\ ao_pc = "call"

AoIdle ==
    /\ ao_electron_coords = <<0, 0, 0>>
    /\ ao_atom_coords = <<0, 0, 0>>
    /\ ao_orbital = 0
    /\ ao_exponents = <<>>
    /\ ao_coefficients = <<>>
    /\ ao_norms = <<>>
    /\ uao = <<>>
    /\ ao_pc = "done"

--------------------------------------------------------------------------
\* The interpolation helpers applied to drawn arguments.

InterpInit ==
    /\ in_iso \in -ArgRange..ArgRange
    /\ in_v1 \in -ArgRange..ArgRange
    /\ in_v2 \in -ArgRange..ArgRange
    /\ out_sq = <<>>
    /\ out_mc = <<>>

InterpIdle ==
    /\ in_iso = 0
    /\ in_v1 = 0
    /\ in_v2 = 0
    /\ out_sq = <<>>
    /\ out_mc = <<>>

\* a call of the marching-squares helper; the float parameters narrow the
\* doubles passed
ApplySqInterpolation ==
    /\ out_sq = <<>>
    /\ out_sq' = SqInterpolation(in_iso, ToFloat(in_v1), ToFloat(in_v2))
    /\ UNCHANGED <<in_iso, in_v1, in_v2, out_mc>>
    /\ UNCHANGED <<sqVars, mcVars, moVars, aoVars, vgVars, restVars>>

\* a call of the marching-cubes helper
ApplyMcInterpolation ==
    /\ out_mc = <<>>
    /\ out_mc' = McInterpolation(in_iso, ToFloat(in_v1), ToFloat(in_v2))
    /\ UNCHANGED <<in_iso, in_v1, in_v2, out_sq>>
    /\ UNCHANGED <<sqVars, mcVars, moVars, aoVars, vgVars, restVars>>

--------------------------------------------------------------------------
\* Two invocations of calculate_mo_cartesian that run at the same time (the
\* function is declared nogil).  The shell and coefficient arrays of pm_call
\* are shared and only read; every invocation w has its own electron
\* position and the locals shell_index, shell_start and mo_value.

PmWorkers == {"a", "b"}

\* (mutant) both invocations are handed the same aos_values buffer
PmScratchOf_Shared(w) == "a"

\* the aos_values argument of invocation w: a buffer of its own
PmScratchOf(w) == w

\* the arguments of invocation w
PmCallOf(w) == [pm_call EXCEPT !.electron_position = pm_electron[w]]

\* "shell_end = shell_start + number_of_basis_functions[shells[shell_index]]"
PmShellEnd(w) ==
    pm_start[w] + NumberOfBasisFunctions[pm_call.shells[pm_index[w] + 1] + 1]

\* the memory locations aos_values[first..last - 1] of invocation w
PmSlots(w, first, last) == { <<PmScratchOf(w), i>> : i \in (first + 1)..last }

\* "shell_start = 0", "aos_values[:] = 0.0"
PmEnter(w) ==
    /\ pm_pc[w] = "call"
    /\ pm_aos' = [pm_aos EXCEPT ![PmScratchOf(w)] = [i \in 1..Len(@) |-> Zero]]
    /\ pm_written' = [pm_written EXCEPT
                         ![w] = @ \cup PmSlots(w, 0, Len(pm_aos[PmScratchOf(w)]))]
    /\ pm_start' = [pm_start EXCEPT ![w] = 0]
    /\ pm_index' = [pm_index EXCEPT ![w] = 0]
    /\ pm_value' = [pm_value EXCEPT ![w] = [e \in Scales |-> 0]]
    /\ pm_pc' = [pm_pc EXCEPT ![w] = "loop"]
    /\ UNCHANGED <<pm_call, pm_electron, pm_result>>
    /\ UNCHANGED <<interpVars, sqVars, mcVars, moVars, aoVars, vgVars, rcVars, mxVars>>

\* the head of one loop iteration: the distance test and, within the cutoff,
\* the call of calculate_aos that fills aos_values[shell_start:shell_end]
PmShell(w) ==
    /\ pm_pc[w] = "loop"
    /\ pm_index[w] < Len(pm_call.shells)
    /\ LET row == pm_start[w] + 1
           shell == pm_call.shells[pm_index[w] + 1]
           distance_sq == DistanceSq(pm_electron[w], pm_call.orbital_position[row])
           out == CalculateAos(pm_electron[w], pm_call.orbital_position[row],
                               pm_call.orbital_exponents[row],
                               pm_call.orbital_coefficients[row],
                               pm_call.orbital_norms[row], shell)
       IN  IF MoWithinCutoff(distance_sq, pm_call.cut_off_distances[pm_index[w] + 1])
           THEN /\ pm_aos' = [pm_aos EXCEPT ![PmScratchOf(w)] =
                                 [i \in 1..Len(@) |->
                                     IF i > pm_start[w] /\ i <= PmShellEnd(w)
                                     THEN out[i - pm_start[w]] ELSE @[i]]]
                /\ pm_written' = [pm_written EXCEPT
                                     ![w] = @ \cup PmSlots(w, pm_start[w], PmShellEnd(w))]
                /\ pm_pc' = [pm_pc EXCEPT ![w] = "sum"]
                /\ UNCHANGED <<pm_index, pm_start>>
           ELSE /\ pm_start' = [pm_start EXCEPT ![w] =
                                   MoNextShellStart(FALSE, @, PmShellEnd(w))]
                /\ pm_index' = [pm_index EXCEPT ![w] = @ + 1]
                /\ UNCHANGED <<pm_aos, pm_written, pm_pc>>
    /\ UNCHANGED <<pm_call, pm_electron, pm_value, pm_result>>
    /\ UNCHANGED <<interpVars, sqVars, mcVars, moVars, aoVars, vgVars, rcVars, mxVars>>

\* the rest of the iteration: "mo_value += mo_coefficients[i] * aos_values[i]"
\* for the shell's entries, read from the buffer, and "shell_start = shell_end"
PmSum(w) ==
    /\ pm_pc[w] = "sum"
    /\ pm_value' = [pm_value EXCEPT ![w] =
                       MoAccumulate(@, pm_call.mo_coefficients,
                                    pm_aos[PmScratchOf(w)], pm_start[w] + 1,
                                    PmShellEnd(w))]
    /\ pm_start' = [pm_start EXCEPT ![w] = MoNextShellStart(TRUE, @, PmShellEnd(w))]
    /\ pm_index' = [pm_index EXCEPT ![w] = @ + 1]
    /\ pm_pc' = [pm_pc EXCEPT ![w] = "loop"]
    /\ UNCHANGED <<pm_call, pm_electron, pm_aos, pm_result, pm_written>>
    /\ UNCHANGED <<interpVars, sqVars, mcVars, moVars, aoVars, vgVars, rcVars, mxVars>>

\* "return mo_value"
PmReturn(w) ==
    /\ pm_pc[w] = "loop"
    /\ pm_index[w] = Len(pm_call.shells)
    /\ pm_result' = [pm_result EXCEPT ![w] = pm_value[w]]
    /\ pm_pc' = [pm_pc EXCEPT ![w] = "done"]
    /\ UNCHANGED <<pm_call, pm_electron, pm_aos, pm_index, pm_start, pm_value,
                   pm_written>>
    /\ UNCHANGED <<interpVars, sqVars, mcVars, moVars, aoVars, vgVars, rcVars, mxVars>>

\* the electron positions of the invocations, in bohr
PmElectrons == { <<0, 0, 0>>, <<1, 1, 0>>, <<2, 1, 1>> }

\* what an aos_values buffer holds before the call
PmStale == { Zero, Num(7, Sqr3) }

PmInit ==
    /\ \E molecule \in VgMolecules :
          pm_call = VgCall(molecule.aos,
                           [r \in 1..Len(molecule.aos) |-> (r % 3) + 1],
                           molecule.cutoffs, <<0, 0, 0>>)
    /\ pm_electron \in [PmWorkers -> PmElectrons]
    /\ \E stale \in [PmWorkers -> PmStale] :
          pm_aos = [w \in PmWorkers |->
                       [i \in 1..Len(pm_call.mo_coefficients) |-> stale[w]]]
    /\ pm_pc = [w \in PmWorkers |-> "call"]
    /\ pm_index = [w \in PmWorkers |-> 0]
    /\ pm_start = [w \in PmWorkers |-> 0]
    /\ pm_value = [w \in PmWorkers |-> [e \in Scales |-> 0]]
    /\ pm_result = [w \in PmWorkers |-> [e \in Scales |-> 0]]
    /\ pm_written = [w \in PmWorkers |-> {}]

PmIdle ==
    /\ pm_call = <<>>
    /\ pm_electron = <<>>
    /\ pm_aos = <<>>
    /\ pm_pc = <<>>
    /\ pm_index = <<>>
    /\ pm_start = <<>>
    /\ pm_value = <<>>
    /\ pm_result = <<>>
    /\ pm_written = <<>>


--------------------------------------------------------------------------
\* select_sphere and check_sphere_intersect of tools/raycasting.pyx.
\* Lengths are whole numbers of half a unit of the coordinates, so that the
\* factor q = 1 / (2 * a) = 0.5 of the roots needs no fraction: the value
\* -1.0 is the number -2.

\* the square root, rounded to a representable number
Sqrt(n) == CHOOSE r \in 0..n : r * r <= n /\ n < (r + 1) * (r + 1)

\* check_sphere_intersect: the distance along the ray to the sphere
CheckSphereIntersect(sphere_origin, radius, ray_origin, ray_direction) ==
    LET dx == ray_origin[1] - sphere_origin[1]
        dy == ray_origin[2] - sphere_origin[2]
        dz == ray_origin[3] - sphere_origin[3]
        b == 2 * (ray_direction[1] * dx + ray_direction[2] * dy
                  + ray_direction[3] * dz)
        c == dx * dx + dy * dy + dz * dz - radius * radius
        discriminant == b * b - 4 * c
        t1 == -b + Sqrt(discriminant)
        t2 == -b - Sqrt(discriminant)
    IN  IF discriminant < 0 THEN -2
        ELSE IF discriminant > 0 THEN (IF t1 > t2 THEN t2 ELSE t1)
        ELSE -b

\* (mutant) a sphere at the same distance replaces the selected one
RcCloser_OrEqual(distance, least) == least < 0 \/ distance <= least

\* "if min_distance < 0 or distance < min_distance"
RcCloser(distance, least) == least < 0 \/ distance < least

\* one iteration of "for i in range(sphere_origins.shape[0])"
RcSphere ==
    /\ rc_pc = "loop"
    /\ rc_i < Len(sphere_origins)
    /\ LET distance == CheckSphereIntersect(sphere_origins[rc_i + 1],
                                            radii[rc_i + 1], camera_position, ray)
       IN  IF distance > 0 /\ RcCloser(distance, min_distance)
           THEN /\ min_distance' = distance
                /\ selected_sphere_index' = rc_i
           ELSE UNCHANGED <<min_distance, selected_sphere_index>>
    /\ rc_i' = rc_i + 1
    /\ UNCHANGED <<sphere_origins, radii, camera_position, ray, rc_pc, rc_result>>
    /\ UNCHANGED <<interpVars, sqVars, mcVars, moVars, aoVars, vgVars, pmVars, mxVars>>

\* "return selected_sphere_index"
RcReturn ==
    /\ rc_pc = "loop"
    /\ rc_i = Len(sphere_origins)
    /\ rc_result' = selected_sphere_index
    /\ rc_pc' = "done"
    /\ UNCHANGED <<sphere_origins, radii, camera_position, ray, rc_i,
                   min_distance, selected_sphere_index>>
    /\ UNCHANGED <<interpVars, sqVars, mcVars, moVars, aoVars, vgVars, pmVars, mxVars>>

\* the spheres of a scene: <<centre, radius>>
RcSpheres ==
    { << <<3, 0, 0>>, 1 >>, << <<3, 1, 0>>, 2 >>, << <<5, 0, 0>>, 1 >>,
      << <<0, 0, 0>>, 2 >>, << <<-3, 0, 0>>, 1 >>, << <<3, 2, 0>>, 1 >>,
      << <<3, 1, 0>>, 1 >> }

\* the call: the statements before the loop have set min_distance = -1.0 and
\* selected_sphere_index = -1, and ray is the normalised direction
RcInit ==
    /\ \E scene \in UNION { [1..n -> RcSpheres] : n \in 0..MaxSpheres } :
          /\ sphere_origins = [i \in DOMAIN scene |-> scene[i][1]]
          /\ radii = [i \in DOMAIN scene |-> scene[i][2]]
    /\ camera_position \in { <<0, 0, 0>>, <<0, 1, 0>> }
    /\ ray \in { <<1, 0, 0>>, <<0, 1, 0>> }
    /\ rc_i = 0
    /\ min_distance = -2
    /\ selected_sphere_index = -1
    /\ rc_pc = "loop"
    /\ rc_result = -1

RcIdle ==
    /\ sphere_origins = <<>>
    /\ radii = <<>>
    /\ camera_position = <<0, 0, 0>>
    /\ ray = <<0, 0, 0>>
    /\ rc_i = 0
    /\ min_distance = 0
    /\ selected_sphere_index = 0
    /\ rc_pc = "idle"
    /\ rc_result = 0

--------------------------------------------------------------------------
\* calculate_model_matrices of rendering/matrices.pyx.  The iterations of
\* "for i in prange(n)" are the processes; temp is one array for all of
\* them.  A matrix is a sequence of rows.

\* the array a call starts with: np.zeros((n, 4, 4)) and
\* "model_matrices[:, 3, 3] = 1.0"
MxFresh(n) ==
    [i \in 1..n |-> [r \in 1..4 |-> [c \in 1..4 |-> IF r = 4 /\ c = 4 THEN 1 ELSE 0]]]

\* the default of the parameter rotation, np.array([[[-1.0]]])
MxNoRotation == << << <<-1>> >> >>

\* what dot_product_m leaves in res: res[k, j] = sum_l a[j, l] * b[l, k]
DotProductM(a, b) ==
    [k \in 1..3 |-> [j \in 1..3 |->
        a[j][1] * b[1][k] + a[j][2] * b[2][k] + a[j][3] * b[3][k]]]

\* res after the iteration j of the outer loop of dot_product_m
DotProductColumn(a, b, res, j) ==
    [k \in 1..3 |-> [c \in 1..3 |-> IF c = j THEN DotProductM(a, b)[k][c] ELSE res[k][c]]]

\* the index into rotation and scale of iteration i: "i // 2" for cylinders
MxSourceOf(i) == IF cylinder THEN i \div 2 ELSE i

\* iteration i calls dot_product_m: with cylinder only "if (i % 2) == 0"
MxMultiplies(i) == ~cylinder \/ i % 2 = 0

\* "model_matrices[i, 3, 0] = translation[i, 3, 0]" and the two after it
MxTranslated(matrix, i) ==
    [matrix EXCEPT ![4] = [c \in 1..4 |->
        IF c <= 3 THEN mx_translation[i + 1][4][c] ELSE matrix[4][c]]]

\* an iteration of the first loop: no rotation was given
MxPlain(i) ==
    /\ i < Len(mx_pc)
    /\ mx_pc[i + 1] = "start"
    /\ mx_rotation[1][1][1] = -1
    /\ model_matrices' = [model_matrices EXCEPT ![i + 1] =
          MxTranslated([r \in 1..4 |-> [c \in 1..4 |->
              IF r = c /\ r <= 3 THEN mx_scale[i + 1][r][r] ELSE @[r][c]]], i)]
    /\ mx_pc' = [mx_pc EXCEPT ![i + 1] = "done"]
    /\ UNCHANGED <<mx_translation, mx_scale, mx_rotation, cylinder, temp,
                   mx_j, temp_writer, mx_seen>>
    /\ UNCHANGED <<interpVars, sqVars, mcVars, moVars, aoVars, vgVars, pmVars, rcVars>>

\* an iteration of the second loop reaches the call of dot_product_m or,
\* for the second instance of a cylinder, passes it by
MxEnter(i) ==
    /\ i < Len(mx_pc)
    /\ mx_pc[i + 1] = "start"
    /\ mx_rotation[1][1][1] # -1
    /\ mx_pc' = [mx_pc EXCEPT ![i + 1] = IF MxMultiplies(i) THEN "dot" ELSE "copy"]
    /\ UNCHANGED <<mx_translation, mx_scale, mx_rotation, cylinder,
                   model_matrices, temp, mx_j, temp_writer, mx_seen>>
    /\ UNCHANGED <<interpVars, sqVars, mcVars, moVars, aoVars, vgVars, pmVars, rcVars>>

\* dot_product_m called by iteration i: one iteration of "for j in prange(3)"
MxColumn(i) ==
    /\ i < Len(mx_pc)
    /\ mx_pc[i + 1] = "dot"
    /\ LET j == mx_j[i + 1]
           g == MxSourceOf(i)
       IN  /\ temp' = DotProductColumn(mx_rotation[g + 1], mx_scale[g + 1], temp, j)
           /\ temp_writer' = [temp_writer EXCEPT ![j] = g]
           /\ mx_j' = [mx_j EXCEPT ![i + 1] = IF j = 3 THEN j ELSE j + 1]
           /\ mx_pc' = [mx_pc EXCEPT ![i + 1] = IF j = 3 THEN "copy" ELSE "dot"]
    /\ UNCHANGED <<mx_translation, mx_scale, mx_rotation, cylinder,
                   model_matrices, mx_seen>>
    /\ UNCHANGED <<interpVars, sqVars, mcVars, moVars, aoVars, vgVars, pmVars, rcVars>>

\* "model_matrices[i, :3, :3] = temp[:,:]" and the translation of iteration i
MxCopy(i) ==
    /\ i < Len(mx_pc)
    /\ mx_pc[i + 1] = "copy"
    /\ model_matrices' = [model_matrices EXCEPT ![i + 1] =
          MxTranslated([r \in 1..4 |-> [c \in 1..4 |->
              IF r <= 3 /\ c <= 3 THEN temp[r][c] ELSE @[r][c]]], i)]
    /\ mx_seen' = [mx_seen EXCEPT ![i + 1] = { temp_writer[j] : j \in 1..3 }]
    /\ mx_pc' = [mx_pc EXCEPT ![i + 1] = "done"]
    /\ UNCHANGED <<mx_translation, mx_scale, mx_rotation, cylinder, temp,
                   mx_j, temp_writer>>
    /\ UNCHANGED <<interpVars, sqVars, mcVars, moVars, aoVars, vgVars, pmVars, rcVars>>

\* rotation matrices of the calls: the identity and a quarter turn about z
MxRotations ==
    { << <<1, 0, 0>>, <<0, 1, 0>>, <<0, 0, 1>> >>,
      << <<0, -1, 0>>, <<1, 0, 0>>, <<0, 0, 1>> >> }

\* scale matrices of the calls
MxScales ==
    { << <<1, 0, 0>>, <<0, 2, 0>>, <<0, 0, 1>> >>,
      << <<2, 0, 0>>, <<0, 3, 0>>, <<0, 0, 2>> >> }

\* the translation matrix of instance i
MxTranslationOf(i) ==
    [r \in 1..4 |-> [c \in 1..4 |->
        IF r = c THEN 1 ELSE IF r = 4 THEN i + c ELSE 0]]

\* the iterations of the loop of the largest call
MxIterations == 0..2

MxInit ==
    /\ \E n \in 1..(Cardinality(MxIterations)) :
          /\ mx_translation = [i \in 1..n |-> MxTranslationOf(i)]
          /\ mx_scale \in [1..n -> MxScales]
          /\ mx_rotation \in [1..n -> MxRotations] \cup {MxNoRotation}
          /\ model_matrices = MxFresh(n)
          /\ mx_pc = [i \in 1..n |-> "start"]
          /\ mx_j = [i \in 1..n |-> 1]
          /\ mx_seen = [i \in 1..n |-> {}]
    /\ cylinder \in BOOLEAN
    /\ temp = [r \in 1..3 |-> [c \in 1..3 |-> 0]]
    /\ temp_writer = [j \in 1..3 |-> -1]

MxIdle ==
    /\ mx_translation = <<>>
    /\ mx_scale = <<>>
    /\ mx_rotation = <<>>
    /\ cylinder = FALSE
    /\ model_matrices = <<>>
    /\ temp = <<>>
    /\ mx_pc = <<>>
    /\ mx_j = <<>>
    /\ temp_writer = <<>>
    /\ mx_seen = <<>>

\* the calls that are not under way
RestIdle == PmIdle /\ RcIdle /\ MxIdle

--------------------------------------------------------------------------
\* Specifications.

\* marching_squares called with buffers of any of the drawn sizes
InitSq == SqInit /\ InterpIdle /\ McIdle /\ MoIdle /\ AoIdle /\ VgIdle /\ RestIdle
NextSq == SqCell \/ SqFinish
SpecSq == InitSq /\ [][NextSq]_vars

\* marching_squares called with buffers of the worst-case size
InitSqSized == SqInitSized /\ InterpIdle /\ McIdle /\ MoIdle /\ AoIdle /\ VgIdle /\ RestIdle
SpecSqSized == InitSqSized /\ [][NextSq]_vars

\* marching_cubes called with buffers of the worst-case size
InitMc == McInit /\ InterpIdle /\ SqIdle /\ MoIdle /\ AoIdle /\ VgIdle /\ RestIdle
NextMc == McCell \/ McFinish
SpecMc == InitMc /\ [][NextMc]_vars

\* marching_cubes called on the sphere grids
InitMcSphere == McInitSphere /\ InterpIdle /\ SqIdle /\ MoIdle /\ AoIdle /\ VgIdle /\ RestIdle
SpecMcSphere == InitMcSphere /\ [][NextMc]_vars

\* marching cubes on ridge grids
InitMcRidge == McInitRidge /\ InterpIdle /\ SqIdle /\ MoIdle /\ AoIdle /\ VgIdle /\ RestIdle
SpecMcRidge == InitMcRidge /\ [][NextMc]_vars

\* marching cubes at isovalue 0
InitMcZeroIso == McInitZeroIso /\ InterpIdle /\ SqIdle /\ MoIdle /\ AoIdle /\ VgIdle /\ RestIdle
SpecMcZeroIso == InitMcZeroIso /\ [][NextMc]_vars

\* one call of either extractor, with buffers of any of the drawn sizes
InitExtractors == \/ SqInit /\ McIdle /\ InterpIdle /\ MoIdle /\ AoIdle /\ VgIdle /\ RestIdle
                  \/ McInitSmallBuffer /\ SqIdle /\ InterpIdle /\ MoIdle /\ AoIdle /\ VgIdle /\ RestIdle
NextExtractors == SqCell \/ SqFinish \/ McCell \/ McFinish
SpecExtractors == InitExtractors /\ [][NextExtractors]_vars

\* one call of either extractor with buffers of the worst-case size
InitCells == \/ SqInitSized /\ McIdle /\ InterpIdle /\ MoIdle /\ AoIdle /\ VgIdle /\ RestIdle
             \/ McInit /\ SqIdle /\ InterpIdle /\ MoIdle /\ AoIdle /\ VgIdle /\ RestIdle
SpecCells == InitCells /\ [][NextExtractors]_vars

\* calculate_mo_cartesian called on drawn shells
InitMo == MoInit /\ InterpIdle /\ SqIdle /\ McIdle /\ AoIdle /\ VgIdle /\ RestIdle
NextMo == MoEnter \/ MoShell \/ MoReturn
SpecMo == InitMo /\ [][NextMo]_vars

\* generate_voxel_grid called on drawn arguments
InitVg == VgInit /\ InterpIdle /\ SqIdle /\ McIdle /\ MoIdle /\ AoIdle /\ RestIdle
NextVg == VgPrepare \/ VgCell \/ VgReturn
SpecVg == InitVg /\ [][NextVg]_vars

\* generate_voxel_grid called for an s shell
InitVgSShell == VgInitSShell /\ InterpIdle /\ SqIdle /\ McIdle /\ MoIdle /\ AoIdle /\ RestIdle
SpecVgSShell == InitVgSShell /\ [][NextVg]_vars

\* generate_voxel_grid called on lists of complete shells
InitVgShells == VgInitShells /\ InterpIdle /\ SqIdle /\ McIdle /\ MoIdle /\ AoIdle /\ RestIdle
SpecVgShells == InitVgShells /\ [][NextVg]_vars

\* calculate_aos called on drawn arguments
InitAos == AoInit /\ InterpIdle /\ SqIdle /\ McIdle /\ MoIdle /\ VgIdle /\ RestIdle
NextAos == ApplyCalculateAos
SpecAos == InitAos /\ [][NextAos]_vars

\* the two interpolation helpers called on drawn arguments
InitInterp == InterpInit /\ SqIdle /\ McIdle /\ MoIdle /\ AoIdle /\ VgIdle /\ RestIdle
NextInterp == ApplySqInterpolation \/ ApplyMcInterpolation
SpecInterp == InitInterp /\ [][NextInterp]_vars

\* two concurrent invocations of calculate_mo_cartesian
InitPm == PmInit /\ InterpIdle /\ SqIdle /\ McIdle /\ MoIdle /\ AoIdle /\ VgIdle /\ RcIdle /\ MxIdle
NextPm == \E w \in PmWorkers : PmEnter(w) \/ PmShell(w) \/ PmSum(w) \/ PmReturn(w)
SpecPm == InitPm /\ [][NextPm]_vars

\* select_sphere called for a scene
InitRc == RcInit /\ InterpIdle /\ SqIdle /\ McIdle /\ MoIdle /\ AoIdle /\ VgIdle /\ PmIdle /\ MxIdle
NextRc == RcSphere \/ RcReturn
SpecRc == InitRc /\ [][NextRc]_vars

\* calculate_model_matrices with the iterations of its loop running in parallel
InitMx == MxInit /\ InterpIdle /\ SqIdle /\ McIdle /\ MoIdle /\ AoIdle /\ VgIdle /\ PmIdle /\ RcIdle
NextMx == \E i \in MxIterations : MxPlain(i) \/ MxEnter(i) \/ MxColumn(i) \/ MxCopy(i)
SpecMx == InitMx /\ [][NextMx]_vars

--------------------------------------------------------------------------
\* Claims.

\* the positive-phase case index of the cell get_edges was last called on
SqComputedIndex == CaseIndex(corners, sq_iso, TRUE, 4)

\* C1: in the positive phase, a cell whose computed case index is 5 uses
\* row 10 of line_table when the mean of its corners is below the isovalue
\* and row 5 otherwise.
C1_SaddleFiveSwaps ==
    (sq_visited # <<>> /\ SqComputedIndex = 5) =>
        IF SqMeanBelow(corners, sq_iso)
        THEN sq_index[1] = 10 /\ sq_edges[1] = <<0, 2, 1, 3>>
        ELSE sq_index[1] = 5 /\ sq_edges[1] = <<0, 1, 2, 3>>

\* C1: a cell with computed index 5 and mean below the isovalue was processed
C1_SaddleFiveBelowSeen ==
    sq_visited # <<>> /\ SqComputedIndex = 5 /\ SqMeanBelow(corners, sq_iso)

\* C2: in the positive phase, a cell whose computed case index is 10 uses
\* row 5 when the mean is below the isovalue and row 10 otherwise; a cell
\* with any other index than 5 and 10 uses the row of that index.
C2_SaddleTenAndPlainRows ==
    sq_visited # <<>> =>
        /\ (SqComputedIndex = 10 /\ SqMeanBelow(corners, sq_iso)) =>
               (sq_index[1] = 5 /\ sq_edges[1] = <<0, 1, 2, 3>>)
        /\ (SqComputedIndex = 10 /\ ~SqMeanBelow(corners, sq_iso)) =>
               (sq_index[1] = 10 /\ sq_edges[1] = <<0, 2, 1, 3>>)
        /\ SqComputedIndex \notin {5, 10} =>
               (sq_index[1] = SqComputedIndex
                /\ sq_edges[1] = LineTable[SqComputedIndex + 1])

\* C2: a cell with computed index 10 and mean below the isovalue was
\* processed and row 5 was used for it
C2_SaddleTenBelowSeen ==
    /\ sq_visited # <<>>
    /\ SqComputedIndex = 10
    /\ SqMeanBelow(corners, sq_iso)
    /\ sq_edges[1] = <<0, 1, 2, 3>>

\* C5: the marching-squares helper returns exactly 0.5 when |v2 - v1| < 1e-6,
\* whatever iso is, and (iso - v1) / (v2 - v1) otherwise; its divisor is
\* never of magnitude below 1e-6.
C5_SqInterpolationGuard ==
    out_sq # <<>> =>
        LET v1 == ToFloat(in_v1)
            v2 == ToFloat(in_v2)
        IN  /\ Abs(v2 - v1) < EpsUnits => out_sq = <<1, 2>>
            /\ Abs(v2 - v1) >= EpsUnits =>
                   (out_sq = <<in_iso - v1, v2 - v1>> /\ Abs(out_sq[2]) >= EpsUnits)

\* C5: the helper was called with distinct values closer than 1e-6 and an
\* isovalue for which the quotient would not be 0.5
C5_NearEqualSeen ==
    /\ out_sq = <<1, 2>>
    /\ ToFloat(in_v1) # ToFloat(in_v2)
    /\ 2 * (in_iso - ToFloat(in_v1)) # ToFloat(in_v2) - ToFloat(in_v1)

\* C6: the marching-cubes helper returns exactly 0.5 when |v2 - v1| < 1e-6
\* and never divides by zero.
C6_McInterpolationGuard ==
    out_mc # <<>> =>
        /\ Abs(ToFloat(in_v2) - ToFloat(in_v1)) < EpsUnits => out_mc = <<1, 2>>
        /\ IsFinite(out_mc)

\* ---- marching cubes

\* the grid edge a vertex lies on
GridEdge(v) == {v.a, v.b}

\* the edges of a triangle, its vertices identified with their grid edges
TriangleEdges(tri) ==
    { {GridEdge(tri[1]), GridEdge(tri[2])},
      {GridEdge(tri[2]), GridEdge(tri[3])},
      {GridEdge(tri[1]), GridEdge(tri[3])} }

\* every edge of every triangle stored in buf belongs to exactly two of them
Manifold(buf) ==
    \A n \in 1..Len(buf.writes) :
        \A e \in TriangleEdges(buf.writes[n].tri) :
            Cardinality({ m \in 1..Len(buf.writes) :
                            e \in TriangleEdges(buf.writes[m].tri) }) = 2

\* C3: on a grid that is 1 inside a sphere lying strictly inside the grid
\* and -1 elsewhere, the positive-phase triangles emitted at isovalue 0.5
\* form a manifold (every triangle edge is shared by exactly two triangles)
\* and the number of emitted positive-phase vertices is even.
C3_SphereSurfaceIsManifold ==
    mc_pc = "done" =>
        /\ Manifold(vertices_1)
        /\ (3 * Len(vertices_1.writes)) % 2 = 0

\* C3: a pass over a sphere grid has ended with triangles from several cells
C3_SphereSurfaceEmitted ==
    /\ mc_pc = "done"
    /\ mc_outcome = "returned"
    /\ Len(vertices_1.writes) > 8

\* for every case index, every edge listed before the first -1 joins a
\* corner whose bit is set with a corner whose bit is clear
EdgesCrossTheSurface ==
    \A c \in 0..255 :
        \A n \in 1..(3 * McTriangleCount(TriangleTable[c + 1])) :
            LET ev == McEdgeVertexIndices[TriangleTable[c + 1][n] + 1]
            IN  Bit(c, ev[1]) + Bit(c, ev[2]) = 1

\* s lies between x and y
Brackets(x, y, s) == (x <= s /\ s <= y) \/ (y <= s /\ s <= x)

\* the vertices of the triangles last emitted for phase ph (1 or 2)
LastVertices(ph) ==
    { mc_tris[ph][n][m] : n \in 1..Len(mc_tris[ph]), m \in 1..3 }

\* C4: every edge listed in a row of triangle_table has exactly one corner
\* with its bit set in the case index; hence for every emitted vertex, in
\* either phase, the two corner values bracket the signed isovalue, the
\* denominator v2 - v1 is non-zero and t lies in [0, 1].
C4_EmittedVerticesInterpolate ==
    /\ EdgesCrossTheSurface
    /\ \A ph \in 1..2 :
          \A v \in LastVertices(ph) :
              /\ Brackets(mc_grid[v.a], mc_grid[v.b], -v.sign * mc_iso)
              /\ IsFinite(v.t)
              /\ InUnitInterval(v.t)

\* C7: with voxel_number equal to the shape of grid, every grid index read
\* for a cell (its 8 corners and the 6 neighbours of the corners of its
\* vertices) lies within [0, dim - 1] on each axis, and next to the cell
\* (clamped, not wrapped around).
C7_GridReadsInBounds ==
    mc_visited # <<>> =>
        LET cell == mc_visited[Len(mc_visited)]
        IN  \A p \in mc_reads :
                \A a \in 1..3 :
                    /\ 0 <= p[a]
                    /\ p[a] <= mc_n[a] - 1
                    /\ cell[a] - 1 <= p[a]
                    /\ p[a] <= cell[a] + 2

\* C7: normals were computed for a cell in the last layer of the grid, whose
\* upper neighbour index is clamped
C7_BoundaryCellRead ==
    /\ mc_visited # <<>>
    /\ mc_visited[Len(mc_visited)][1] = mc_n[1] - 2
    /\ mc_tris[1] # <<>>
    /\ Cardinality(mc_reads) > 8

\* ---- normals

\* the vertices marching_cubes computes for phase ph (1 or 2) of the cell
\* visited last, whether or not they were stored
LastCellVertices(ph) ==
    LET cell == mc_visited[Len(mc_visited)]
        row == mc_edges[ph]
    IN  { McVertex(row[n], voxel_values, mc_grid, mc_n, cell[1], cell[2],
                   cell[3], mc_iso, IF ph = 1 THEN 1 ELSE -1, 0)
          : n \in 1..(3 * McTriangleCount(row)) }

\* a corner of a vertex of the cell visited last lies in a flat region, or
\* the interpolated normal of such a vertex has length zero
DegenerateNormalMet ==
    /\ mc_visited # <<>>
    /\ \E ph \in 1..2 : \E v \in LastCellVertices(ph) : McNormalVertexFails(v)

\* C15: when the clamped central differences at a corner are all zero, or
\* the interpolated normal has length zero, the normal helpers raise no
\* error and divide by nothing that is zero, and the triangle gets its
\* normals all the same.
C15_DegenerateNormalsDefined ==
    DegenerateNormalMet =>
        /\ mc_outcome # "ZeroDivisionError"
        /\ \A ph \in 1..2 : Len(mc_tris[ph]) = McTriangleCount(mc_edges[ph])

\* the central differences of mc_grid at lattice point p, each neighbour
\* index clamped to the grid
ClampedGradient(p) ==
    [a \in 1..3 |->
        mc_grid[[p EXCEPT ![a] = Min(p[a] + 1, mc_n[a] - 1)]]
        - mc_grid[[p EXCEPT ![a] = Max(p[a] - 1, 0)]]]

\* C16: every normal emitted for the positive phase is the negation of the
\* renormalised interpolation, by the vertex's own t, of the unit gradients
\* at the two corners of the vertex's edge; every normal emitted for the
\* negative phase is that interpolation without negation.
C16_NormalsInterpolateCornerGradients ==
    \A ph \in 1..2 :
        \A v \in LastVertices(ph) :
            /\ v.na = v.a /\ v.nb = v.b
            /\ v.nt = v.t
            /\ v.ga = ClampedGradient(v.a) /\ v.ga # McZero
            /\ v.gb = ClampedGradient(v.b) /\ v.gb # McZero
            /\ ~McInterpolatesToZero(v.ga, v.gb, v.nt)
            /\ v.sign = IF ph = 1 THEN -1 ELSE 1

\* C16: a cell has emitted triangles for both phases, one of them with a
\* vertex off the middle of its edge between corners of different gradients
C16_BothPhasesEmittedNormals ==
    /\ LastVertices(1) # {}
    /\ LastVertices(2) # {}
    /\ \E ph \in 1..2 : \E v \in LastVertices(ph) :
          v.ga # v.gb /\ IsFinite(v.t) /\ ~IsHalf(v.t)

\* ---- isovalue 0

\* the cube edges listed in a row of triangle_table
RowEdges(row) == { row[n] : n \in 1..(3 * McTriangleCount(row)) }

\* where the vertices of phase ph of the cell visited last are placed: the
\* grid edge and the interpolation factor of each
Placements(ph) == { <<{v.a, v.b}, v.t>> : v \in LastCellVertices(ph) }

\* the pass runs at isovalue 0 over a grid without a value equal to 0
ZeroIsoCase ==
    /\ mc_iso = 0
    /\ \A p \in DOMAIN mc_grid : mc_grid[p] # 0

\* C17: at isovalue 0 on a grid without a value equal to 0, in every cell
\* the negative-phase case index is 255 - c for the positive-phase index c,
\* rows c and 255 - c of triangle_table list the same set of cube edges,
\* and both phases place their vertices at the same interpolated positions
\* on the same grid edges.
C17_ZeroIsoPhasesCoincide ==
    /\ mc_pc = "done" =>
          \A c \in 0..255 :
              RowEdges(TriangleTable[c + 1]) = RowEdges(TriangleTable[256 - c])
    /\ (ZeroIsoCase /\ mc_visited # <<>>) =>
          /\ mc_index[2] = 255 - mc_index[1]
          /\ RowEdges(mc_edges[1]) = RowEdges(mc_edges[2])
          /\ Placements(1) = Placements(2)

\* C17: a cell of such a pass has emitted several triangles in each phase
C17_ZeroIsoCellEmitted ==
    /\ ZeroIsoCase
    /\ mc_visited # <<>>
    /\ Len(mc_tris[1]) > 1
    /\ Len(mc_tris[2]) > 1
    /\ Cardinality(Placements(1)) > 3

\* ---- triangle_table

\* the number of entries of row before the first -1
EntriesBeforeSentinel(row) ==
    IF \A n \in 1..Len(row) : row[n] # -1 THEN Len(row)
    ELSE (CHOOSE n \in 1..Len(row) :
              row[n] = -1 /\ \A m \in 1..(n - 1) : row[m] # -1) - 1

\* the entries before the first -1 are a whole number of triples of edge
\* indices 0..11, five triples at most, and only -1 follows them
TriangleRowWellFormed(row) ==
    LET k == EntriesBeforeSentinel(row)
    IN  /\ Len(row) = 16
        /\ k % 3 = 0
        /\ k <= 15
        /\ \A n \in 1..k : row[n] \in 0..11
        /\ \A n \in (k + 1)..16 : row[n] = -1

\* the entries of the row of phase ph that marching_cubes uses as edge
\* indices in the cell visited last
EdgeIndicesUsed(ph) ==
    { mc_edges[ph][n] : n \in 1..(3 * McTriangleCount(mc_edges[ph])) }

\* C18: triangle_table has 256 rows of 16 entries; in every row the entries
\* before the first -1 are a multiple of 3 in number, at most 15, each in
\* 0..11, and only -1 follows; rows 0 and 255 are empty; and marching_cubes,
\* which tests entry 3 * ei only, never uses -1 as an edge index.
C18_TriangleTableWellFormed ==
    /\ mc_pc = "done" =>
          /\ Len(TriangleTable) = 256
          /\ \A c \in 1..256 : TriangleRowWellFormed(TriangleTable[c])
          /\ EntriesBeforeSentinel(TriangleTable[1]) = 0
          /\ EntriesBeforeSentinel(TriangleTable[256]) = 0
    /\ \A ph \in 1..2 : EdgeIndicesUsed(ph) \subseteq 0..11

\* C18: a cell whose row holds five triangles has been processed
C18_FullRowProcessed ==
    /\ mc_visited # <<>>
    /\ EntriesBeforeSentinel(mc_edges[1]) = 15
    /\ Len(mc_tris[1]) = 5

\* ---- line_table

\* the edges of the square whose two corners have different bits in c
SqCrossingEdges(c) ==
    { e \in 0..3 : Bit(c, SqEdgeVertexIndices[e + 1][1])
                     # Bit(c, SqEdgeVertexIndices[e + 1][2]) }

\* the edges listed in a row of line_table
SqListedEdges(row) == { row[n] : n \in 1..EntriesBeforeSentinel(row) }

\* 0, 1 or 2 pairs of edge indices 0..3, no edge twice, and only -1 after
LineRowWellFormed(row) ==
    LET k == EntriesBeforeSentinel(row)
    IN  /\ Len(row) = 4
        /\ k \in {0, 2, 4}
        /\ \A n \in 1..k : row[n] \in 0..3
        /\ Cardinality(SqListedEdges(row)) = k
        /\ \A n \in (k + 1)..4 : row[n] = -1

\* the case index get_edges computes for phase ph before the tie-break
SqComputedIndexOf(ph) ==
    IF ph = 1 THEN CaseIndex(corners, sq_iso, TRUE, 4)
    ELSE CaseIndex(corners, -sq_iso, FALSE, 4)

\* the vertices marching_squares places for phase ph in the cell visited last
SqLastVertices(ph) ==
    LET cell == sq_visited[Len(sq_visited)]
        w == SqCellRows(sq_edges[ph], corners, cell[1], cell[2],
                        IF ph = 1 THEN sq_iso ELSE -sq_iso)
    IN  { w[n] : n \in 1..Len(w) }

\* C19: line_table has 16 rows of 4 entries holding 0, 1 or 2 segments
\* followed by -1 only; rows 0 and 15 are empty; the edges listed for a case
\* index are exactly the edges whose corners differ in that index, each
\* once.  The row used after the saddle tie-break lists exactly the edges
\* whose corners differ in the computed index, so the corner values of
\* every vertex bracket the signed isovalue.
C19_LineTableListsCrossingEdges ==
    /\ Len(LineTable) = 16
    /\ \A c \in 0..15 :
          /\ LineRowWellFormed(LineTable[c + 1])
          /\ SqListedEdges(LineTable[c + 1]) = SqCrossingEdges(c)
    /\ LineTable[1][1] = -1
    /\ LineTable[16][1] = -1
    /\ sq_visited # <<>> =>
          \A ph \in 1..2 :
              /\ SqListedEdges(sq_edges[ph]) = SqCrossingEdges(SqComputedIndexOf(ph))
              /\ \A v \in SqLastVertices(ph) :
                    /\ {v.a, v.b} \subseteq DOMAIN sq_grid
                    /\ Brackets(sq_grid[v.a], sq_grid[v.b],
                                IF ph = 1 THEN sq_iso ELSE -sq_iso)

\* C19: the tie-break has replaced the computed index of a saddle cell
\* and both segments of the other row were placed
C19_SwappedSaddleRowUsed ==
    /\ sq_visited # <<>>
    /\ \E ph \in 1..2 :
          /\ SqComputedIndexOf(ph) \in {5, 10}
          /\ sq_index[ph] # SqComputedIndexOf(ph)
          /\ Cardinality(SqLastVertices(ph)) = 4

\* ---- output buffers

\* a marching-squares buffer whose count was stored over a stored vertex
SqDataOverwritten(buf) ==
    \E r \in 1..Len(buf) : buf[r].cnt >= 0 /\ buf[r].data # NoData

\* a marching-cubes buffer whose count was stored over a stored float
McDataOverwritten(buf) ==
    /\ buf.cnt >= 0
    /\ \E n \in 1..Len(buf.writes) :
          buf.writes[n].at <= buf.len - 1 /\ buf.len - 1 < buf.writes[n].at + 18

\* C20: after marching_cubes has returned, the last entry of vertices_1 is
\* the number of vertices emitted for the positive phase and the last entry
\* of vertices_2 the number emitted for the negative phase, three for each
\* emitted triangle.
C20_CountIsNumberOfVertices ==
    (mc_pc = "done" /\ mc_outcome = "returned"
     /\ vertices_1.len > 0 /\ vertices_2.len > 0) =>
        /\ vertices_1.cnt = 3 * Len(vertices_1.writes)
        /\ vertices_2.cnt = 3 * Len(vertices_2.writes)

\* a buffer was smaller than the data emitted for its phase plus the count
SqUndersized ==
    \/ sq_outcome = "crashed"
    \/ Len(lines_1) < sq_count[1] + 1
    \/ Len(lines_2) < sq_count[2] + 1

McUndersized ==
    \/ mc_outcome = "aborted"
    \/ vertices_1.len < mc_count[1] + 1
    \/ vertices_2.len < mc_count[2] + 1

\* C8: when an output buffer is smaller than the data emitted for its phase
\* plus the count slot, the extractor reports a precondition failure; it
\* never writes past the end of the buffer and never overwrites or drops
\* emitted data silently.
C8_UndersizedBufferReported ==
    /\ (sq_pc = "done" /\ SqUndersized) =>
          /\ sq_outcome = "precondition_failure"
          /\ ~sq_overrun
          /\ ~SqDataOverwritten(lines_1) /\ ~SqDataOverwritten(lines_2)
    /\ (mc_pc = "done" /\ McUndersized) =>
          /\ mc_outcome = "precondition_failure"
          /\ ~mc_overrun
          /\ ~McDataOverwritten(vertices_1) /\ ~McDataOverwritten(vertices_2)

--------------------------------------------------------------------------
\* Molecular orbitals

\* first row (0-indexed) of shell n (0-indexed): the component counts of
\* the shells before it
StartOf(n) == BasisFunctionsBefore(shells, n + 1)

\* the rows (0-indexed) of shell n (0-indexed)
RowsOf(n) ==
    StartOf(n)..(StartOf(n) + NumberOfBasisFunctions[shells[n + 1] + 1] - 1)

\* squared distance from the electron to the centre of shell n (0-indexed)
ShellDistanceSq(n) ==
    DistanceSq(electron_position, orbital_position[StartOf(n) + 1])

\* the rows whose coefficient the call has read
UsedRows == { mo_used[i] : i \in 1..Len(mo_used) }

\* C9: a shell is skipped only when its squared distance exceeds the square
\* of its cutoff radius; a shell at or inside the cutoff is included in the
\* sum (its coefficients are read).
C9_SkippedOnlyBeyondCutoff ==
    \A n \in 0..(shell_index - 1) :
        LET cutoff == cut_off_distances[n + 1]
        IN  /\ n \in mo_skipped => ShellDistanceSq(n) > cutoff * cutoff
            /\ ShellDistanceSq(n) <= cutoff * cutoff => RowsOf(n) \subseteq UsedRows

\* AO_n,0 .. AO_n,count-1: the components of shell n (0-indexed), evaluated
\* from the data of the shell's first row
AtomicOrbitals(n) ==
    LET first == StartOf(n) + 1
    IN  CalculateAos(electron_position, orbital_position[first],
                     orbital_exponents[first], orbital_coefficients[first],
                     orbital_norms[first], shells[n + 1])

\* the part with scale e of sum_k mo_coefficients[start + k] * ao[k] over
\* the first count components of ao (k is 0-indexed in the code)
RECURSIVE ShellSum(_, _, _, _)
ShellSum(ao, start, count, e) ==
    IF count = 0 THEN 0
    ELSE ShellSum(ao, start, count - 1, e)
         + (IF ao[count].e = e
            THEN mo_coefficients[start + count] * ao[count].m ELSE 0)

\* the part with scale e of the sum over the first n shells, the skipped
\* ones left out
RECURSIVE ContractedSum(_, _)
ContractedSum(n, e) ==
    IF n = 0 THEN 0
    ELSE ContractedSum(n - 1, e)
         + (IF (n - 1) \in mo_skipped THEN 0
            ELSE ShellSum(AtomicOrbitals(n - 1), StartOf(n - 1),
                          NumberOfBasisFunctions[shells[n] + 1], e))

\* C10: the returned value is the sum over the shells not skipped of
\* mo_coefficients[start_n + k] * AO_n,k with start_n the component counts
\* of all shells before n; no coefficient is read twice, and when no shell
\* is skipped every row is read exactly once.
C10_ResultIsContractionOverShellRanges ==
    mo_pc = "done" /\ shells # <<>> =>
        /\ \A e \in Scales :
              mo_result[e] = ContractedSum(Len(shells), e)
        /\ \A a, b \in 1..Len(mo_used) : mo_used[a] = mo_used[b] => a = b
        /\ mo_skipped = {} => UsedRows = 0..(Len(mo_coefficients) - 1)

\* a call has returned a non-zero value after skipping its first shell
C10_LaterShellAfterSkipSummed ==
    /\ mo_pc = "done"
    /\ 0 \in mo_skipped
    /\ Len(shells) > 1
    /\ 1 \notin mo_skipped
    /\ \E e \in Scales : mo_result[e] # 0

--------------------------------------------------------------------------
\* Atomic orbitals

RECURSIVE Power(_, _)
Power(x, n) == IF n = 0 THEN 1 ELSE x * Power(x, n - 1)

\* dx^a * dy^b * dz^c * u of the call, for t = <<a, b, c>>
AoMonomial(t) ==
    LET dx == ao_electron_coords[1] - ao_atom_coords[1]
        dy == ao_electron_coords[2] - ao_atom_coords[2]
        dz == ao_electron_coords[3] - ao_atom_coords[3]
    IN  Power(dx, t[1]) * Power(dy, t[2]) * Power(dz, t[3])
        * RadialSum(ao_exponents, ao_coefficients, ao_norms,
                    dx * dx + dy * dy + dz * dz, Len(ao_exponents))

\* two numbers with the same value
SameNumber(x, y) == (x.m = 0 /\ y.m = 0) \/ (x.m = y.m /\ x.e = y.e)

\* the largest power of a monomial
TopPower(t) == Max(t[1], Max(t[2], t[3]))

\* 1 for the pure cubics, sqrt5 for the mixed-2-1 components and
\* sqrt5 * sqrt3 for xyz
FScale(t) ==
    IF TopPower(t) = 3 THEN Plain
    ELSE IF TopPower(t) = 2 THEN Sqr5 ELSE ScaleTimes(Sqr5, Sqr3)

\* uao holds, in the order given, the f components with their scales
FComponentsInOrder(order) ==
    /\ Len(uao) = 10
    /\ \A k \in 1..10 :
          SameNumber(uao[k], Num(AoMonomial(order[k]), FScale(order[k])))

\* xxx, yyy, zzz, xxy, xxz, xyy, yyz, xzz, yzz, xyz
FOrderClaimed ==
    << <<3, 0, 0>>, <<0, 3, 0>>, <<0, 0, 3>>, <<2, 1, 0>>, <<2, 0, 1>>,
       <<1, 2, 0>>, <<0, 2, 1>>, <<1, 0, 2>>, <<0, 1, 2>>, <<1, 1, 1>> >>

\* xxx, yyy, zzz, xyy, xxy, xxz, xzz, yzz, yyz, xyz
FOrderOfIndices ==
    << <<3, 0, 0>>, <<0, 3, 0>>, <<0, 0, 3>>, <<1, 2, 0>>, <<2, 1, 0>>,
       <<2, 0, 1>>, <<1, 0, 2>>, <<0, 1, 2>>, <<0, 2, 1>>, <<1, 1, 1>> >>

\* C11 as stated: for an f shell the 10 components are at indices 0..9 in
\* the order xxx, yyy, zzz, xxy, xxz, xyy, yyz, xzz, yzz, xyz, with d_k^3 * u
\* for the pure cubics, sqrt5 * d_i^2 * d_j * u for the mixed components and
\* sqrt5 * sqrt3 * dx * dy * dz * u for xyz.
C11_FShellOrderAsStated ==
    (ao_pc = "done" /\ ao_orbital = 3 /\ uao # <<>>) =>
        FComponentsInOrder(FOrderClaimed)

\* C11 amended: the same values, at indices 0..9 in the order xxx, yyy, zzz,
\* xyy, xxy, xxz, xzz, yzz, yyz, xyz.
C11_FShellOrderOfIndices ==
    (ao_pc = "done" /\ ao_orbital = 3 /\ uao # <<>>) =>
        FComponentsInOrder(FOrderOfIndices)

\* C11: an f shell was evaluated at a point where the two orders differ
C11_FShellDistinctComponentsSeen ==
    /\ ao_pc = "done" /\ ao_orbital = 3 /\ uao # <<>>
    /\ AoMonomial(<<2, 1, 0>>) # AoMonomial(<<1, 2, 0>>)
    /\ AoMonomial(<<0, 2, 1>>) # AoMonomial(<<1, 0, 2>>)
    /\ uao[4].m # 0 /\ uao[10].m # 0

\* xxxx, yyyy, zzzz, xxxy, xxxz, yyyx, yyyz, zzzx, zzzy, xxyy, xxzz, yyzz,
\* xxyz, yyxz, zzxy
GOrder ==
    << <<4, 0, 0>>, <<0, 4, 0>>, <<0, 0, 4>>, <<3, 1, 0>>, <<3, 0, 1>>,
       <<1, 3, 0>>, <<0, 3, 1>>, <<1, 0, 3>>, <<0, 1, 3>>, <<2, 2, 0>>,
       <<2, 0, 2>>, <<0, 2, 2>>, <<2, 1, 1>>, <<1, 2, 1>>, <<1, 1, 2>> >>

\* the scale of a g component, given the scale of the double-double ones:
\* 1 for the pure quartics, sqrt7 for the cubic-linear ones and sqrt3 times
\* the double-double scale for the fully mixed ones
GScale(t, double_double) ==
    IF TopPower(t) = 4 THEN Plain
    ELSE IF TopPower(t) = 3 THEN Sqr7
    ELSE IF 0 \in {t[1], t[2], t[3]} THEN double_double
    ELSE ScaleTimes(double_double, Sqr3)

\* uao holds the g components in the order GOrder with these scales
GComponentsScaled(double_double) ==
    /\ Len(uao) = 15
    /\ \A k \in 1..15 :
          SameNumber(uao[k], Num(AoMonomial(GOrder[k]),
                                 GScale(GOrder[k], double_double)))

\* C12 as stated: for a g shell the 15 components are in the order xxxx,
\* yyyy, zzzz, xxxy, xxxz, yyyx, yyyz, zzzx, zzzy, xxyy, xxzz, yyzz, xxyz,
\* yyxz, zzxy, scaled relative to the radial sum by 1, sqrt7, sqrt5 / sqrt3
\* (double-double) and sqrt3 times the double-double scale (fully mixed).
C12_GShellScalesAsStated ==
    (ao_pc = "done" /\ ao_orbital = 4 /\ uao # <<>>) =>
        GComponentsScaled(Sqr5OverSqr3)

\* C12 amended: the same order, the double-double components scaled by
\* sqrt7 * sqrt5 / sqrt3 relative to the radial sum and the fully mixed
\* ones by sqrt3 times that, sqrt7 * sqrt5.
C12_GShellScalesChained ==
    (ao_pc = "done" /\ ao_orbital = 4 /\ uao # <<>>) =>
        GComponentsScaled(ScaleTimes(Sqr7, Sqr5OverSqr3))

\* C12: a g shell was evaluated at a point where no component is zero
C12_GShellAllComponentsSeen ==
    /\ ao_pc = "done" /\ ao_orbital = 4 /\ uao # <<>>
    /\ \A k \in 1..15 : uao[k].m # 0
    /\ uao[10].m # uao[11].m

--------------------------------------------------------------------------
\* Voxel grid

\* (origin + i * voxel_size[0,:] + j * voxel_size[1,:] + k * voxel_size[2,:])
\* * ANGSTROM_TO_BOHR for the cell c = <<i, j, k>>
CellPosition(c) ==
    [a \in 1..3 |->
        AngstromToBohr * (vg_origin[a] + c[1] * voxel_size[1][a]
                          + c[2] * voxel_size[2][a] + c[3] * voxel_size[3][a])]

\* the molecular-orbital value at a position
OrbitalValueAt(position) ==
    CalculateMoCartesian(VgCall(vg_aos, vg_mo_coeff, vg_cut_off_distances,
                                position))

\* C13: the returned grid has the shape voxel_count; every cell [i, j, k]
\* is assigned exactly once, with the molecular-orbital value at (origin +
\* i * voxel_size[0,:] + j * voxel_size[1,:] + k * voxel_size[2,:]) *
\* ANGSTROM_TO_BOHR, whether the rows of voxel_size are orthogonal or not,
\* and no cell is left unassigned.
C13_EveryCellSampledOnce ==
    (vg_pc = "done" /\ vg_outcome = "returned") =>
        /\ DOMAIN voxel_grid = VgCells(voxel_count)
        /\ \A c \in VgCells(voxel_count) :
              /\ vg_assigned[c] = 1
              /\ voxel_grid[c] # Unassigned
              /\ voxel_grid[c] = OrbitalValueAt(CellPosition(c))

\* C13: a grid with two cells along every axis of a sheared basis and an
\* origin off zero was returned, with cells of different non-zero values
C13_ShearedGridSampled ==
    /\ vg_pc = "done" /\ vg_outcome = "returned"
    /\ \A a \in 1..3 : voxel_count[a] = VgDim
    /\ voxel_size[2] = <<1, 1, 0>>
    /\ vg_origin # <<0, 0, 0>>
    /\ \E c, d \in VgCells(voxel_count) :
          /\ voxel_grid[c] # voxel_grid[d]
          /\ voxel_grid[c] # [e \in Scales |-> 0]
          /\ voxel_grid[d] # [e \in Scales |-> 0]

\* C14: with a voxel count below 1 on some axis (zero or negative) the call
\* returns an empty grid, raises no error and evaluates no orbital.
C14_CountBelowOneGivesEmptyGrid ==
    (vg_pc = "done" /\ vg_outcome # "idle"
     /\ \E a \in 1..3 : voxel_count[a] < 1) =>
        /\ vg_outcome = "returned"
        /\ DOMAIN voxel_grid = {}
        /\ vg_evaluations = 0

--------------------------------------------------------------------------
\* The stepwise form of calculate_mo_cartesian returns what its evaluation
\* in one step gives.
MoStepwiseAgrees ==
    (mo_pc = "done" /\ shells # <<>>) =>
        mo_result = CalculateMoCartesian(
            [electron_position |-> electron_position,
             orbital_position |-> orbital_position,
             orbital_exponents |-> orbital_exponents,
             orbital_coefficients |-> orbital_coefficients,
             orbital_norms |-> orbital_norms,
             shells |-> shells,
             mo_coefficients |-> mo_coefficients,
             cut_off_distances |-> cut_off_distances])

--------------------------------------------------------------------------
\* ---- concurrent invocations of calculate_mo_cartesian

\* the locations of the aos_values buffer handed to invocation w
PmOwnBuffer(w) == { <<w, i>> : i \in 1..Len(pm_call.mo_coefficients) }

\* C21: two invocations of calculate_mo_cartesian that run concurrently on
\* the same read-only shell and coefficient arrays, each with its own
\* electron position and aos_values buffer, each return under every
\* interleaving the value the call returns when it runs alone; an invocation
\* writes only to its own aos_values, and the value returned does not depend
\* on what aos_values held before the call.
C21_ConcurrentCallsIndependent ==
    \A w \in PmWorkers :
        /\ pm_written[w] \subseteq PmOwnBuffer(w)
        /\ pm_pc[w] = "done" => pm_result[w] = CalculateMoCartesian(PmCallOf(w))

\* one invocation has returned a non-zero value while the other, called for
\* a different position, is between filling and summing its second shell
C21_InterleavedCallsSeen ==
    /\ pm_pc["a"] = "done"
    /\ pm_result["a"] # [e \in Scales |-> 0]
    /\ pm_pc["b"] = "sum"
    /\ pm_index["b"] = 1
    /\ pm_electron["a"] # pm_electron["b"]
    /\ pm_aos["a"] # pm_aos["b"]

--------------------------------------------------------------------------
\* ---- an s shell and the padding of its primitives

\* sum_i n_i * c_i * exp(-alpha_i * r2) over the first n primitives the
\* orbital was given
RECURSIVE PrimitiveSum(_, _, _)
PrimitiveSum(ao, r2, n) ==
    IF n = 0 THEN 0
    ELSE PrimitiveSum(ao, r2, n - 1)
         + ao.norms[n] * ao.coefficients[n] * ExpNeg(ao.exponents[n], r2)

\* the squared distance of cell c from the centre of the first shell
SShellDistanceSq(c) == DistanceSq(CellPosition(c), VgToBohr(vg_aos[1].position))

\* the cells that were evaluated within the cutoff of the first shell
SShellCells ==
    { c \in DOMAIN voxel_grid :
         /\ vg_assigned[c] = 1
         /\ SShellDistanceSq(c) < vg_cut_off_distances[1] * vg_cut_off_distances[1] }

\* C22: for a single s shell within its cutoff the value is
\* mo_coefficients[0] * sum_i n_i * c_i * exp(-alpha_i * |P - C|^2) over the
\* primitives the shell was given: the slots added by padding to the longest
\* shell contribute exactly 0.  With one primitive and coefficient 1 the
\* value is n * c * exp(-alpha * |P - C|^2), which is n * c at P = C.
C22_SShellValueIgnoresPadding ==
    \A c \in SShellCells :
        LET ao == vg_aos[1]
            r2 == SShellDistanceSq(c)
        IN  /\ voxel_grid[c] =
                  [e \in Scales |->
                      IF e = Plain
                      THEN vg_mo_coeff[1] * PrimitiveSum(ao, r2, Len(ao.exponents))
                      ELSE 0]
            /\ (Len(ao.exponents) = 1 /\ vg_mo_coeff[1] = 1) =>
                  /\ voxel_grid[c][Plain] =
                        ao.norms[1] * ao.coefficients[1] * ExpNeg(ao.exponents[1], r2)
                  /\ r2 = 0 =>
                        voxel_grid[c][Plain]
                            = ao.norms[1] * ao.coefficients[1] * TwoTo(ExpBits)

\* a shell of one primitive, padded to the three of a later shell, was
\* evaluated with coefficient 1 at its centre and at another point
C22_PaddedSShellEvaluated ==
    /\ vg_pc = "done"
    /\ Len(vg_aos) = 2
    /\ Len(vg_aos[1].exponents) = 1
    /\ Len(vg_aos[2].exponents) = 3
    /\ vg_mo_coeff[1] = 1
    /\ \E c, d \in SShellCells :
          /\ SShellDistanceSq(c) = 0
          /\ SShellDistanceSq(d) > 0
          /\ voxel_grid[c][Plain] = 6 * TwoTo(ExpBits)
          /\ voxel_grid[d][Plain] \notin {0, voxel_grid[c][Plain]}

--------------------------------------------------------------------------
\* ---- the symmetry of the d, f and g components

\* the monomials of the d components uao[0..5]: xx, yy, zz, xy, xz, yz
DOrder ==
    << <<2, 0, 0>>, <<0, 2, 0>>, <<0, 0, 2>>, <<1, 1, 0>>, <<1, 0, 1>>,
       <<0, 1, 1>> >>

\* the monomials of the components of a shell, by output index
ShellOrder(orbital) ==
    IF orbital = 2 THEN DOrder
    ELSE IF orbital = 3 THEN FOrderOfIndices ELSE GOrder

\* a triple with the entries of axes a and b exchanged
Exchanged(t, a, b) ==
    [i \in 1..3 |-> IF i = a THEN t[b] ELSE IF i = b THEN t[a] ELSE t[i]]

\* the output index (1-indexed) of monomial t in a shell
IndexOfMonomial(order, t) == CHOOSE k \in 1..Len(order) : order[k] = t

\* what calculate_aos writes when axes a and b of P - C are exchanged
AosOfExchanged(a, b) ==
    LET d == [i \in 1..3 |-> ao_electron_coords[i] - ao_atom_coords[i]]
        e == Exchanged(d, a, b)
    IN  CalculateAos([i \in 1..3 |-> ao_atom_coords[i] + e[i]], ao_atom_coords,
                     ao_exponents, ao_coefficients, ao_norms, ao_orbital)

\* the exponents of a monomial in descending order
Sorted(t) ==
    LET hi == Max(t[1], Max(t[2], t[3]))
        lo == Min(t[1], Min(t[2], t[3]))
    IN  <<hi, t[1] + t[2] + t[3] - hi - lo, lo>>

\* C23: for d, f and g shells, exchanging two coordinates of d = P - C
\* permutes the components written by calculate_aos as it permutes their
\* monomials (x<->y takes the value of xxy to the place of yyx) and changes
\* no value otherwise; components whose monomials are related by a
\* permutation of the axes carry the same scale factor.
C23_ExchangedAxesPermuteComponents ==
    (ao_pc = "done" /\ ao_orbital \in 2..4) =>
        LET order == ShellOrder(ao_orbital)
        IN  /\ Len(uao) = Len(order)
            /\ \A a, b \in 1..3 :
                  LET other == AosOfExchanged(a, b)
                  IN  \A k \in 1..Len(order) :
                         other[IndexOfMonomial(order, Exchanged(order[k], a, b))]
                             = uao[k]
            /\ \A k, j \in 1..Len(order) :
                  Sorted(order[k]) = Sorted(order[j]) => uao[k].e = uao[j].e

\* a g shell was evaluated at a position whose three relative coordinates
\* differ, so that exchanging axes moves values between components
C23_AsymmetricShellEvaluated ==
    /\ ao_pc = "done"
    /\ ao_orbital = 4
    /\ LET other == AosOfExchanged(1, 3)
       IN  /\ other # uao
           /\ \A k \in 1..15 : uao[k].m # 0
           /\ uao[4].m # uao[6].m
           /\ uao[13].m # uao[15].m

--------------------------------------------------------------------------
\* ---- select_sphere

\* the intersection distance of sphere i (0-indexed) along the pick ray:
\* what check_sphere_intersect returns for it
HitDistance(i) ==
    CheckSphereIntersect(sphere_origins[i + 1], radii[i + 1], camera_position, ray)

\* the spheres with a positive intersection distance
SpheresHit == { i \in 0..(Len(sphere_origins) - 1) : HitDistance(i) > 0 }

\* C24: select_sphere returns -1 exactly when no sphere has a positive
\* intersection distance along the pick ray; otherwise it returns the index
\* of the sphere whose intersection distance is the smallest positive one,
\* the lowest index among equal distances.  The index returned is -1 or
\* lies in [0, number of spheres).
C24_NearestSphereSelected ==
    rc_pc = "done" =>
        /\ rc_result \in (-1)..(Len(sphere_origins) - 1)
        /\ rc_result = -1 <=> SpheresHit = {}
        /\ rc_result # -1 =>
              /\ rc_result \in SpheresHit
              /\ \A j \in SpheresHit :
                    /\ HitDistance(rc_result) <= HitDistance(j)
                    /\ HitDistance(j) = HitDistance(rc_result) => rc_result <= j

\* a scene of three spheres, one missed and two hit at the same, smallest
\* distance, of which the one with the lower index was returned
C24_TieAmongSpheresSeen ==
    /\ rc_pc = "done"
    /\ Len(sphere_origins) = 3
    /\ rc_result = 1
    /\ 0 \notin SpheresHit
    /\ 2 \in SpheresHit
    /\ HitDistance(2) = HitDistance(1)

--------------------------------------------------------------------------
\* ---- the footprint of the stores of one pass

\* the step of marching_squares stores the vertices of one cell for phase ph
\* (buffer before and after, count before and after) in a range of its own
SqCellFootprint(before, after, from, to, ph) ==
    LET verts == SqCellRows(sq_edges'[ph], corners', sq_i, sq_j,
                            IF ph = 1 THEN sq_iso ELSE -sq_iso)
    IN  /\ to = from + 2 * SqSegmentCount(sq_edges'[ph])
        /\ Len(after) = Len(before)
        /\ \A r \in 1..Len(before) :
              IF r > from /\ r <= to
              THEN before[r].data = NoData /\ after[r].data = verts[r - from]
              ELSE after[r] = before[r]

\* the last statements of marching_squares store the count in the trailing
\* slot and touch nothing else; the slot holds no vertex data
SqCountFootprint(before, after) ==
    /\ Len(after) = Len(before)
    /\ \A r \in 1..(Len(before) - 1) : after[r] = before[r]
    /\ ~SqDataOverwritten(after)

\* the step of marching_cubes stores the triangles of one cell for phase ph
\* in 18 floats each, from the running count on
McCellFootprint(before, after, from, to, ph) ==
    /\ to = from + 18 * Len(mc_tris'[ph])
    /\ Len(after.writes) = Len(before.writes) + Len(mc_tris'[ph])
    /\ \A n \in 1..Len(after.writes) :
          /\ after.writes[n].at = 18 * (n - 1)
          /\ n <= Len(before.writes) => after.writes[n] = before.writes[n]
          /\ n > Len(before.writes) =>
                after.writes[n].tri = mc_tris'[ph][n - Len(before.writes)]
    /\ to = 18 * Len(after.writes)

\* what one step of a pass that is not cut short by a fault may do
FootprintStep ==
    /\ (sq_pc = "cell" /\ sq_outcome' # "crashed") =>
          /\ SqCellFootprint(lines_1, lines_1', sq_count[1], sq_count'[1], 1)
          /\ SqCellFootprint(lines_2, lines_2', sq_count[2], sq_count'[2], 2)
    /\ (sq_pc = "finish" /\ sq_outcome' = "returned") =>
          /\ SqCountFootprint(lines_1, lines_1')
          /\ SqCountFootprint(lines_2, lines_2')
    /\ (mc_pc = "cell" /\ mc_outcome' # "aborted") =>
          /\ McCellFootprint(vertices_1, vertices_1', mc_count[1], mc_count'[1], 1)
          /\ McCellFootprint(vertices_2, vertices_2', mc_count[2], mc_count'[2], 2)
    /\ (mc_pc = "finish" /\ mc_outcome' = "returned") =>
          /\ vertices_1'.writes = vertices_1.writes
          /\ vertices_2'.writes = vertices_2.writes
          /\ ~McDataOverwritten(vertices_1')
          /\ ~McDataOverwritten(vertices_2')

\* C25: during one pass the running count of each phase only grows, by 18
\* floats per triangle (marching cubes) or 2 rows per segment (marching
\* squares); the data of distinct (cell, triangle or segment) pairs lies in
\* disjoint, contiguous ranges that tile [0, final count); no data slot is
\* written twice; the slots from the final count on, the trailing count slot
\* apart, stay as they were; and the stores of one phase do not touch the
\* buffer of the other phase.
C25_StoresTileTheBuffers == [][FootprintStep]_vars

--------------------------------------------------------------------------
\* ---- the model matrices of cylinders

\* the call has returned: every iteration of the loop is done
MxReturned == mx_pc # <<>> /\ \A i \in 1..Len(mx_pc) : mx_pc[i] = "done"

\* the upper-left 3x3 block of model_matrices[i] (i is 0-indexed)
MxBlock(i) == [r \in 1..3 |-> [c \in 1..3 |-> model_matrices[i + 1][r][c]]]

\* C26: in calculate_model_matrices called with a rotation array and
\* cylinder=True, for every instance i and under every scheduling of the
\* iterations of the parallel loop, the upper-left 3x3 block of
\* model_matrices[i] is the product dot_product_m computes from
\* rotation[i // 2] and scale[i // 2]; no iteration observes the shared
\* array temp as written, or partly written, by an iteration for a different
\* i // 2.
C26_CylinderBlocksAreProducts ==
    (MxReturned /\ cylinder /\ mx_rotation # MxNoRotation) =>
        \A i \in 0..(Len(mx_pc) - 1) :
            /\ MxBlock(i) = DotProductM(mx_rotation[(i \div 2) + 1],
                                        mx_scale[(i \div 2) + 1])
            /\ mx_seen[i + 1] = {i \div 2}

--------------------------------------------------------------------------
\* ---- the two phases mirror each other

\* the sequence of negated values
Negated(values) == [n \in DOMAIN values |-> -values[n]]

\* the sign of x
SignOf(x) == IF x > 0 THEN 1 ELSE IF x < 0 THEN -1 ELSE 0

\* a quotient with its divisor made non-negative
Canonical(p) == IF p[2] < 0 THEN <<-p[1], -p[2]>> ELSE p

\* two interpolation factors are the same double: the same dividend and
\* divisor up to a common sign, or the same infinity (a dividend of the same
\* sign over the zero that the difference of two equal floats is), or both
\* not a number
SameFactor(p, q) ==
    IF p[2] = 0 \/ q[2] = 0
    THEN p[2] = 0 /\ q[2] = 0 /\ SignOf(p[1]) = SignOf(q[1])
    ELSE Canonical(p) = Canonical(q)

\* two vertices of marching_squares lie at the same position
SqSameVertex(v, w) == v.a = w.a /\ v.b = w.b /\ SameFactor(v.t, w.t)

\* two vertices of marching_cubes lie at the same position and carry the
\* same normal: the same corner gradients after the sign is applied,
\* interpolated by the same factor
McSameVertex(v, w) ==
    /\ v.a = w.a /\ v.b = w.b /\ SameFactor(v.t, w.t)
    /\ v.na = w.na /\ v.nb = w.nb /\ SameFactor(v.nt, w.nt)
    /\ \A x \in 1..3 : /\ v.sign * v.ga[x] = w.sign * w.ga[x]
                       /\ v.sign * v.gb[x] = w.sign * w.gb[x]

\* the cell of marching_squares visited last: phase ph of the grid against
\* the other phase of the negated grid
SqPhasesMirrored(ph) ==
    LET i == sq_visited[Len(sq_visited)][1]
        j == sq_visited[Len(sq_visited)][2]
        mirror == Negated(corners)
        row == SqGetEdges(sq_iso, mirror)[3 - ph]
        here == SqCellRows(sq_edges[ph], corners, i, j,
                           IF ph = 1 THEN sq_iso ELSE -sq_iso)
        there == SqCellRows(row, mirror, i, j,
                            IF ph = 1 THEN -sq_iso ELSE sq_iso)
    IN  /\ sq_index[ph] = SqGetEdgesIndex(sq_iso, mirror)[3 - ph]
        /\ sq_edges[ph] = row
        /\ Len(here) = Len(there)
        /\ \A n \in 1..Len(here) : SqSameVertex(here[n], there[n])

\* the cell of marching_cubes visited last, when no normal divided by zero
\* and no read left the grid: phase ph of the grid against the other phase of
\* the negated grid
McPhasesMirrored(ph) ==
    LET i == mc_visited[Len(mc_visited)][1]
        j == mc_visited[Len(mc_visited)][2]
        k == mc_visited[Len(mc_visited)][3]
        mirror == Negated(voxel_values)
        row == McGetEdges(mc_iso, mirror)[3 - ph]
        there == McCellTriangles(row, mirror, Negated(mc_grid), mc_n, i, j, k,
                                 mc_iso, IF ph = 1 THEN -1 ELSE 1, 0)
    IN  /\ mc_index[ph] = McGetEdgesIndex(mc_iso, mirror)[3 - ph]
        /\ mc_edges[ph] = row
        /\ Len(mc_tris[ph]) = Len(there)
        /\ \A n \in 1..Len(there) : \A m \in 1..3 :
              McSameVertex(mc_tris[ph][n][m], there[n][m])

\* C27: for both extractors and every grid and isovalue, the negative-phase
\* output computed from grid values v equals the positive-phase output
\* computed from the negated values -v: the same table row is selected in
\* every cell (in marching squares including the saddle tie-break), the same
\* vertex positions are produced and, in marching cubes, the same normals.
\* Every grid is the negated grid of another, so both phases of every
\* visited cell are compared with the other phase of the negated grid.
C27_PhasesMirrorEachOther ==
    /\ sq_visited # <<>> => \A ph \in 1..2 : SqPhasesMirrored(ph)
    /\ (/\ mc_visited # <<>>
        /\ mc_outcome # "ZeroDivisionError"
        /\ mc_reads \subseteq DOMAIN mc_grid) =>
          \A ph \in 1..2 : McPhasesMirrored(ph)

--------------------------------------------------------------------------
\* ---- the shells found by the skip counter

\* the number of entries of aos that n shells of the angular momenta shs
\* take: 1, 3, 6, 10 or 15 each
RECURSIVE ComponentsOf(_, _)
ComponentsOf(shs, n) ==
    IF n = 0 THEN 0
    ELSE ComponentsOf(shs, n - 1) + NumberOfBasisFunctions[shs[n] + 1]

\* C28: in generate_voxel_grid, for an atomic-orbital list that is a
\* concatenation of complete shells (1, 3, 6, 10 or 15 consecutive entries
\* for angular momentum 0..4), the skip-counter loop yields a shells array
\* that lists the angular momentum of each shell once, in order, with
\* number_of_shells equal to the number of shells, the skip counter back at
\* 0 after the last entry, and the component counts of the listed shells
\* summing to len(aos).
C28_SkipCounterFindsTheShells ==
    vg_pc # "call" =>
        \A ls \in VgShellLists :
            vg_aos = VgAosOfShells(ls, Len(ls)) =>
                LET found == VgCall(vg_aos, vg_mo_coeff, vg_cut_off_distances,
                                    <<0, 0, 0>>).shells
                IN  /\ found = ls
                    /\ VgNumberOfShells(vg_aos) = Len(ls)
                    /\ VgSkipShells(vg_aos, 1, 0) = 0
                    /\ ComponentsOf(found, Len(found)) = Len(vg_aos)

\* a call on a g shell followed by another shell with more than one
\* component has returned
C28_ShellAfterGShellSeen ==
    /\ vg_outcome = "returned"
    /\ Len(vg_aos) > 15
    /\ vg_aos[1].ijk = <<4, 0, 0>>
    /\ vg_aos[16].ijk[1] > 0

--------------------------------------------------------------------------
\* ---- the cells of a pass

\* the cells of marching_squares: 0 <= index < voxel_number - 1 on both axes
SqAllCells(n) == (0..(n[1] - 2)) \X (0..(n[2] - 2))

\* the cells of marching_cubes: 0 <= index < voxel_number - 1 on each axis
McAllCells(n) == (0..(n[1] - 2)) \X (0..(n[2] - 2)) \X (0..(n[3] - 2))

\* every cell of the set cells occurs exactly once in visited
VisitedOnce(visited, cells) ==
    /\ \A n \in 1..Len(visited) : visited[n] \in cells
    /\ \A c \in cells :
          Cardinality({ n \in 1..Len(visited) : visited[n] = c }) = 1

\* the call of marching_squares has ended
SqEnded == sq_pc = "done" /\ sq_outcome # "running"

\* the call of marching_cubes has ended
McEnded == mc_pc = "done" /\ mc_outcome # "running"

\* a buffer of marching_squares holds no vertex and 0 in its count slot
SqOnlyZeroCount(buf) ==
    /\ Len(buf) > 0
    /\ \A r \in 1..Len(buf) : buf[r].data = NoData
    /\ buf[Len(buf)].cnt = 0

\* a buffer of marching_cubes holds no vertex and 0 in its count slot
McOnlyZeroCount(buf) == buf.len > 0 /\ buf.writes = <<>> /\ buf.cnt = 0

\* C29: when any entry of voxel_number is 1 or less (on an axis that is
\* traversed), marching_cubes and marching_squares visit no cell, write no
\* vertex data and store 0 in the count slot of both phase buffers;
\* otherwise they visit every cell (i, j, k) with
\* 0 <= index < voxel_number - 1 on each axis exactly once.
C29_EveryCellVisitedOnce ==
    /\ SqEnded =>
          IF \E a \in 1..2 : sq_n[a] <= 1
          THEN /\ sq_visited = <<>>
               /\ SqOnlyZeroCount(lines_1)
               /\ SqOnlyZeroCount(lines_2)
          ELSE VisitedOnce(sq_visited, SqAllCells(sq_n))
    /\ McEnded =>
          IF \E a \in 1..3 : mc_n[a] <= 1
          THEN /\ mc_visited = <<>>
               /\ McOnlyZeroCount(vertices_1)
               /\ McOnlyZeroCount(vertices_2)
          ELSE VisitedOnce(mc_visited, McAllCells(mc_n))

--------------------------------------------------------------------------
\* ---- the corners and edges of a cell

\* two lattice indices differ by exactly 1 on exactly one axis
Adjacent(p, q) ==
    /\ Cardinality({ x \in DOMAIN p : p[x] # q[x] }) = 1
    /\ \A x \in DOMAIN p : Abs(p[x] - q[x]) <= 1

\* the rows of an edge table are distinct edges: no two rows join the same
\* two corners
DistinctEdges(table) ==
    Cardinality({ {table[e][1], table[e][2]} : e \in DOMAIN table }) = Len(table)

\* the cell (i, j) of marching_squares: values, corner indices and edges
SqCellWellFormed(i, j) ==
    /\ \A c \in 0..3 : corners[c + 1] = sq_grid[SqVoxelIndex(i, j, c)]
    /\ { SqVoxelIndex(i, j, c) : c \in 0..3 } = {i, i + 1} \X {j, j + 1}
    /\ Len(SqEdgeVertexIndices) = 4
    /\ \A e \in 1..4 :
          Adjacent(SqVoxelIndex(i, j, SqEdgeVertexIndices[e][1]),
                   SqVoxelIndex(i, j, SqEdgeVertexIndices[e][2]))
    /\ DistinctEdges(SqEdgeVertexIndices)

\* the cell (i, j, k) of marching_cubes: values, corner indices and edges
McCellWellFormed(i, j, k) ==
    /\ \A c \in 0..7 : voxel_values[c + 1] = mc_grid[McVoxelIndex(i, j, k, c)]
    /\ { McVoxelIndex(i, j, k, c) : c \in 0..7 }
         = {i, i + 1} \X {j, j + 1} \X {k, k + 1}
    /\ Len(McEdgeVertexIndices) = 12
    /\ \A e \in 1..12 :
          Adjacent(McVoxelIndex(i, j, k, McEdgeVertexIndices[e][1]),
                   McVoxelIndex(i, j, k, McEdgeVertexIndices[e][2]))
    /\ DistinctEdges(McEdgeVertexIndices)

\* C30: in every cell of both extractors, the value stored for corner c is
\* the grid value at the lattice index stored for corner c
\* (voxel_values[c] = grid[voxel_indices[c]]), the 8 (resp. 4) corner
\* indices are the distinct corners of the cell, and every entry of
\* edge_vertex_indices joins two corners whose lattice indices differ by
\* exactly 1 on exactly one axis, the 12 (resp. 4) entries being the
\* distinct edges of the cell.  Checked in the cell visited last.
C30_CornersAndEdgesOfTheCell ==
    /\ sq_visited # <<>> =>
          SqCellWellFormed(sq_visited[Len(sq_visited)][1],
                           sq_visited[Len(sq_visited)][2])
    /\ mc_visited # <<>> =>
          McCellWellFormed(mc_visited[Len(mc_visited)][1],
                           mc_visited[Len(mc_visited)][2],
                           mc_visited[Len(mc_visited)][3])

\* a cell of marching_cubes was visited whose first two corners, one above
\* the other on the third axis, hold different values
C30_UnequalCornersRead ==
    /\ mc_visited # <<>>
    /\ voxel_values[1] # voxel_values[2]
    /\ voxel_values[1] # voxel_values[5]
    /\ voxel_values[1] # voxel_values[4]

==========================================================================
